---- MODULE Spec2Model ----
(***************************************************************************)
(* Ingestion-to-embedding pipeline of the embedding bot: upload records,   *)
(* process_uploaded_file (parse, segment, embed, store), the vector store  *)
(* service and the per-tenant store binding.                               *)
(*                                                                         *)
(* Text values (file names, titles, sentences, table names, aliases) are   *)
(* sequences of one-character strings, so that prefix tests, joins and     *)
(* formatting are computed as the code computes them.  Error texts and     *)
(* status values are plain strings.                                        *)
(***************************************************************************)
EXTENDS Integers, Sequences, FiniteSets, TLC

(***************************************************************************)
(* Bounds of the model.                                                    *)
(***************************************************************************)
MaxDocs == 2
MaxCalls == 2
MaxTexts == 12
MaxThreads == 2
MaxInputSentences == 4

(***************************************************************************)
(* Program constants.                                                      *)
(***************************************************************************)
DB_MAX_RETRIES == 3
API_MAX_RETRIES == 6
API_RETRY_BASE_DELAY == 4
SEGMENT_BATCH_SIZE == 10
MAX_CHARACTERS_PER_CHUNK == 200
MAX_FILE_SIZE_MB == 15
DefaultMaxSentences == 3
DefaultMinWords == 3

TITLE_SEPARATOR == <<"|">>

PENDING == "pending"
PROCESSING == "processing"
READY == "ready"
FAILED == "failed"
UploadStatus == {PENDING, PROCESSING, READY, FAILED}

SUPPORTED_EXTENSIONS ==
    { <<".", "d", "o", "c", "x">>, <<".", "c", "s", "v">>,
      <<".", "t", "x", "t">>, <<".", "m", "d">> }

NULL == "NULL"

\* An optional number: <<>> when unset, <<n>> when set to n.
None == <<>>
Some(n) == <<n>>

(***************************************************************************)
(* Character classes and elementary text functions.                        *)
(***************************************************************************)
LowerLetters == {"a", "b", "c", "d", "e", "m", "n", "o", "s", "t", "v", "x"}
UpperLetters == {"A", "B", "C", "D", "E", "M", "N", "O", "S", "T", "V", "X"}
Digits == {"0", "1", "2", "3", "4", "5", "6", "7", "8", "9"}

IsAlpha(ch) == ch \in LowerLetters \cup UpperLetters
IsAlnum(ch) == IsAlpha(ch) \/ ch \in Digits
IsSpace(ch) == ch \in {" ", "\n", "\t"}

LowerChar(ch) ==
    CASE ch = "A" -> "a" [] ch = "B" -> "b" [] ch = "C" -> "c"
      [] ch = "D" -> "d" [] ch = "E" -> "e" [] ch = "M" -> "m"
      [] ch = "N" -> "n" [] ch = "O" -> "o"
      [] ch = "S" -> "s" [] ch = "T" -> "t" [] ch = "V" -> "v"
      [] ch = "X" -> "x" [] OTHER -> ch

Lower(s) == [i \in 1..Len(s) |-> LowerChar(s[i])]

DigitChar(n) == <<"0", "1", "2", "3", "4", "5", "6", "7", "8", "9">>[n + 1]

RECURSIVE IntToStr(_)
IntToStr(n) ==
    IF n < 10 THEN <<DigitChar(n)>>
    ELSE IntToStr(n \div 10) \o <<DigitChar(n % 10)>>

StartsWith(s, p) == Len(p) <= Len(s) /\ SubSeq(s, 1, Len(p)) = p

RECURSIVE LStrip(_)
LStrip(s) == IF s # <<>> /\ IsSpace(Head(s)) THEN LStrip(Tail(s)) ELSE s

RECURSIVE RStrip(_)
RStrip(s) ==
    IF s # <<>> /\ IsSpace(s[Len(s)]) THEN RStrip(SubSeq(s, 1, Len(s) - 1)) ELSE s

Strip(s) == RStrip(LStrip(s))

RECURSIVE Join(_, _)
Join(parts, sep) ==
    IF parts = <<>> THEN <<>>
    ELSE IF Len(parts) = 1 THEN parts[1]
    ELSE parts[1] \o sep \o Join(Tail(parts), sep)

CountAlpha(s) == Cardinality({i \in 1..Len(s) : IsAlpha(s[i])})
CountAlnum(s) == Cardinality({i \in 1..Len(s) : IsAlnum(s[i])})

\* Index of the last occurrence of ch in s, 0 when there is none.
RECURSIVE LastIndexOf(_, _)
LastIndexOf(s, ch) ==
    IF s = <<>> THEN 0
    ELSE IF s[Len(s)] = ch THEN Len(s)
    ELSE LastIndexOf(SubSeq(s, 1, Len(s) - 1), ch)

(***************************************************************************)
(* embeddings/segmenter.py                                                 *)
(***************************************************************************)
\* nltk.sent_tokenize: a sentence ends at '.', '!' or '?' followed by white
\* space or by the end of the text; white space between sentences is dropped.
RECURSIVE SentScan(_, _, _)
SentScan(text, cur, acc) ==
    IF text = <<>> THEN
        IF Strip(cur) = <<>> THEN acc ELSE Append(acc, Strip(cur))
    ELSE IF Head(text) \in {".", "!", "?"}
            /\ (Len(text) = 1 \/ IsSpace(text[2])) THEN
        SentScan(Tail(text), <<>>, Append(acc, Strip(Append(cur, Head(text)))))
    ELSE SentScan(Tail(text), Append(cur, Head(text)), acc)

SentTokenize(text) == SentScan(text, <<>>, <<>>)

\* nltk.word_tokenize: white-space separated pieces, trailing punctuation of
\* a piece split off as tokens of its own.
RECURSIVE SplitWs(_, _, _)
SplitWs(s, cur, acc) ==
    IF s = <<>> THEN (IF cur = <<>> THEN acc ELSE Append(acc, cur))
    ELSE IF IsSpace(Head(s)) THEN
        SplitWs(Tail(s), <<>>, IF cur = <<>> THEN acc ELSE Append(acc, cur))
    ELSE SplitWs(Tail(s), Append(cur, Head(s)), acc)

RECURSIVE SplitTrailingPunct(_)
SplitTrailingPunct(piece) ==
    IF piece = <<>> THEN <<>>
    ELSE IF IsAlnum(piece[Len(piece)]) THEN <<piece>>
    ELSE SplitTrailingPunct(SubSeq(piece, 1, Len(piece) - 1))
             \o << <<piece[Len(piece)]>> >>

RECURSIVE FlattenTokens(_)
FlattenTokens(pieces) ==
    IF pieces = <<>> THEN <<>>
    ELSE SplitTrailingPunct(Head(pieces)) \o FlattenTokens(Tail(pieces))

WordTokenize(sentence) == FlattenTokens(SplitWs(sentence, <<>>, <<>>))

\* str.isalpha
TokenIsAlpha(token) == token # <<>> /\ \A i \in 1..Len(token) : IsAlpha(token[i])

\* min_alpha_ratio is the fraction ratio_num / ratio_den.
SentenceIsInformative(sentence, min_words, ratio_num, ratio_den) ==
    LET tokens == WordTokenize(sentence)
        word_tokens == SelectSeq(tokens, TokenIsAlpha)
        alnum_chars == CountAlnum(sentence)
        alpha_chars == CountAlpha(sentence)
    IN  IF Len(word_tokens) < min_words THEN FALSE
        ELSE IF alnum_chars = 0 THEN FALSE
        ELSE IF alpha_chars * ratio_den < ratio_num * alnum_chars THEN FALSE
        ELSE TRUE

\* The loop that forgets the sentence at which it flushes the buffer.
RECURSIVE ChunkLoop_DropsAtFlush(_, _, _, _, _, _)
ChunkLoop_DropsAtFlush(sentences, chunks, buffer, char_count, max_sentences, max_characters) ==
    IF sentences = <<>> THEN
        IF buffer # <<>> THEN Append(chunks, Join(buffer, <<" ">>)) ELSE chunks
    ELSE
        LET sentence == Strip(Head(sentences))
            projected_chars == char_count + Len(sentence)
            flush == buffer # <<>>
                       /\ (Len(buffer) >= max_sentences
                             \/ projected_chars > max_characters)
        IN  IF sentence = <<>> THEN
                ChunkLoop_DropsAtFlush(Tail(sentences), chunks, buffer,
                                       char_count, max_sentences, max_characters)
            ELSE IF flush THEN
                ChunkLoop_DropsAtFlush(Tail(sentences),
                                       Append(chunks, Join(buffer, <<" ">>)),
                                       <<>>, 0, max_sentences, max_characters)
            ELSE
                ChunkLoop_DropsAtFlush(Tail(sentences), chunks,
                                       Append(buffer, sentence),
                                       char_count + Len(sentence),
                                       max_sentences, max_characters)

\* The loop that flushes on the character budget only.
RECURSIVE ChunkLoop_NoSentenceLimit(_, _, _, _, _, _)
ChunkLoop_NoSentenceLimit(sentences, chunks, buffer, char_count, max_sentences, max_characters) ==
    IF sentences = <<>> THEN
        IF buffer # <<>> THEN Append(chunks, Join(buffer, <<" ">>)) ELSE chunks
    ELSE
        LET sentence == Strip(Head(sentences))
            projected_chars == char_count + Len(sentence)
            flush == buffer # <<>> /\ projected_chars > max_characters
        IN  IF sentence = <<>> THEN
                ChunkLoop_NoSentenceLimit(Tail(sentences), chunks, buffer,
                                          char_count, max_sentences,
                                          max_characters)
            ELSE
                ChunkLoop_NoSentenceLimit(
                    Tail(sentences),
                    IF flush THEN Append(chunks, Join(buffer, <<" ">>))
                             ELSE chunks,
                    Append(IF flush THEN <<>> ELSE buffer, sentence),
                    (IF flush THEN 0 ELSE char_count) + Len(sentence),
                    max_sentences, max_characters)

RECURSIVE ChunkLoop(_, _, _, _, _, _)
ChunkLoop(sentences, chunks, buffer, char_count, max_sentences, max_characters) ==
    IF sentences = <<>> THEN
        IF buffer # <<>> THEN Append(chunks, Join(buffer, <<" ">>)) ELSE chunks
    ELSE
        LET sentence == Strip(Head(sentences))
            projected_chars == char_count + Len(sentence)
            flush == buffer # <<>>
                       /\ (Len(buffer) >= max_sentences
                             \/ projected_chars > max_characters)
        IN  IF sentence = <<>> THEN
                ChunkLoop(Tail(sentences), chunks, buffer, char_count,
                          max_sentences, max_characters)
            ELSE
                ChunkLoop(Tail(sentences),
                          IF flush THEN Append(chunks, Join(buffer, <<" ">>))
                                   ELSE chunks,
                          Append(IF flush THEN <<>> ELSE buffer, sentence),
                          (IF flush THEN 0 ELSE char_count) + Len(sentence),
                          max_sentences, max_characters)

chunk_sentences(sentences, max_sentences, max_characters) ==
    ChunkLoop(sentences, <<>>, <<>>, 0, max_sentences, max_characters)

Min(a, b) == IF a < b THEN a ELSE b

\* segment_text with force_line_chunks = False.
segment_text_with(text, max_sentences, max_characters, min_words, ratio_num, ratio_den) ==
    LET sentences == SentTokenize(text)
        Informative(sn) ==
            SentenceIsInformative(sn, min_words, ratio_num, ratio_den)
        filtered == SelectSeq(sentences, Informative)
    IN  chunk_sentences(filtered, max_sentences,
                        Min(max_characters, MAX_CHARACTERS_PER_CHUNK))

\* segment_text(text) as create_segments calls it: every default.
segment_text(text) ==
    segment_text_with(text, DefaultMaxSentences, MAX_CHARACTERS_PER_CHUNK,
                      DefaultMinWords, 1, 2)

\* str.splitlines: the pieces between line breaks; a final line break opens
\* no further piece.
RECURSIVE SplitLinesScan(_, _, _)
SplitLinesScan(text, cur, acc) ==
    IF text = <<>> THEN (IF cur = <<>> THEN acc ELSE Append(acc, cur))
    ELSE IF Head(text) = "\n" THEN SplitLinesScan(Tail(text), <<>>, Append(acc, cur))
    ELSE SplitLinesScan(Tail(text), Append(cur, Head(text)), acc)

splitlines(text) == SplitLinesScan(text, <<>>, <<>>)

\* line[start : start + size] for start in range(0, len(line), size).
RECURSIVE Slices(_, _)
Slices(line, size) ==
    IF Len(line) <= size THEN <<line>>
    ELSE <<SubSeq(line, 1, size)>> \o Slices(SubSeq(line, size + 1, Len(line)), size)

\* The loop of _split_lines_preserving_order over text.splitlines().
RECURSIVE LineLoop(_, _)
LineLoop(lines, segments) ==
    IF lines = <<>> THEN segments
    ELSE LET line == Strip(Head(lines))
         IN  IF line = <<>> THEN LineLoop(Tail(lines), segments)
             ELSE IF Len(line) <= MAX_CHARACTERS_PER_CHUNK THEN
                 LineLoop(Tail(lines), Append(segments, line))
             ELSE LineLoop(Tail(lines),
                           segments \o Slices(line, MAX_CHARACTERS_PER_CHUNK))

\* It has the text as its only parameter.
_split_lines_preserving_order(text) == LineLoop(splitlines(text), <<>>)

\* segment_text with the caller's max_sentences, max_characters and
\* force_line_chunks; language, min_words and min_alpha_ratio at their defaults.
segment_text_mode(text, max_sentences, max_characters, force_line_chunks) ==
    IF force_line_chunks THEN _split_lines_preserving_order(text)
    ELSE segment_text_with(text, max_sentences, max_characters,
                           DefaultMinWords, 1, 2)

(***************************************************************************)
(* ingestion/services.py: validation and titles                            *)
(***************************************************************************)
\* pathlib.Path(file_name).suffix: from the last dot of the final path
\* component, empty when that dot is the first or the last character.
PathName(file_name) ==
    SubSeq(file_name, LastIndexOf(file_name, "/") + 1, Len(file_name))

PathSuffix(file_name) ==
    LET name == PathName(file_name)
        dot == LastIndexOf(name, ".")
    IN  IF dot > 1 /\ dot < Len(name) THEN SubSeq(name, dot, Len(name)) ELSE <<>>

ExtensionSupported(file_name) ==
    Lower(PathSuffix(file_name)) \in SUPPORTED_EXTENSIONS

MaxSizeBytes == MAX_FILE_SIZE_MB * 1024 * 1024

\* validate_file_size rejecting the limit itself.
FileSizeAccepted_BelowLimitOnly(file_size) == file_size < MaxSizeBytes

FileSizeAccepted(file_size) == ~(file_size > MaxSizeBytes)

_title_prefix(uploaded) ==
    uploaded.file_name \o TITLE_SEPARATOR \o IntToStr(uploaded.id) \o TITLE_SEPARATOR

\* The title that numbers the segments from 0.
_title_for_segment_FromZero(uploaded, position) ==
    _title_prefix(uploaded) \o IntToStr(position - 1)

_title_for_segment(uploaded, position) ==
    _title_prefix(uploaded) \o IntToStr(position)

(***************************************************************************)
(* Error texts.                                                            *)
(***************************************************************************)
MsgNoText == "No text found in file after processing."
MsgNoSegments == "Unable to split text into segments."
MsgMismatch == "Number of embeddings does not match number of segments."
MsgGeneric == "Unable to process file. Please try again later."
MsgNoApiKey == "OPENAI_API_KEY is not configured."

\* Outcomes of one request to the embedding provider.
TransientErrors == {"RateLimitError", "APITimeoutError", "APIConnectionError"}
StatusErrors == {"APIStatusError 429", "APIStatusError 500", "APIStatusError 401"}
ProviderOutcomes == {"ok"} \cup TransientErrors \cup StatusErrors

\* The outcomes the pipeline is run with: success, an error the embed node
\* retries and an error it raises at once.  SpecAgent runs the embed node
\* with every outcome.
PipelineOutcomes == {"ok", "RateLimitError", "APIStatusError 500"}

\* Outcomes of one database operation.
DbOutcomes == {"ok", "OperationalError", "ProgrammingError"}

(***************************************************************************)
(* Inputs.                                                                 *)
(***************************************************************************)
SentenceABC == <<"a", " ", "b", " ", "c", ".">>
SentenceNum == <<"1", " ", "2", " ", "3", ".">>

TextEmpty == <<>>
TextOne == SentenceABC
TextFour == Join(<<SentenceABC, SentenceABC, SentenceABC, SentenceABC>>, <<" ">>)
TextNoise == SentenceNum

NameA == <<"a", ".", "m", "d">>
NameAB == <<"a", ".", "m", "d", "|", "1", "|", ".", "m", "d">>
NameCsv == <<"b", ".", "c", "s", "v">>
NameUpper == <<"A", ".", "M", "D">>
NameExe == <<"a", ".", "x">>

MimeText == "text/plain"

Upload(chat_id, file_name, content, file_size) ==
    [chat_id |-> chat_id, file_name |-> file_name, content |-> content,
     file_size |-> file_size, mime_type |-> MimeText]

UploadInputs ==
    { Upload(1, NameA, TextFour, 27),
      Upload(2, NameAB, TextOne, MaxSizeBytes),
      Upload(1, NameA, TextEmpty, 0),
      Upload(2, NameCsv, TextNoise, 6),
      Upload(1, NameExe, TextOne, 6),
      Upload(2, NameUpper, TextOne, MaxSizeBytes + 1) }

(***************************************************************************)
(* Store binding.                                                          *)
(***************************************************************************)
\* ingestion.db.get_vector_db_alias(): takes no argument, one process-wide
\* alias for every document.
get_vector_db_alias == <<"v", "e", "c", "t", "o", "r", "s">>

\* N8NEmbed.Meta.db_table, also VectorStoreService's fallback table name.
N8NEmbedTable == <<"n", "8", "n", "-", "e", "m", "b", "e", "d">>

\* The store the ORM calls of apply_embeddings and build_export_archive use.
PipelineStore == [alias |-> get_vector_db_alias, table |-> N8NEmbedTable]

ProfileIds == {1, 2}

\* UserProfile.telegram_chat_id of the profile with this id.
ChatIdOf(profile_id) == profile_id

vector_alias_for_profile(profile_id) ==
    <<"u", "s", "e", "r", "_">> \o IntToStr(profile_id)
        \o <<"_", "v", "e", "c", "t", "o", "r", "s">>

GeneratedTableName(profile_id) ==
    <<"n", "8", "n", "_", "e", "m", "b", "e", "d", "_">> \o IntToStr(profile_id)

CustomTable == <<"d", "o", "c", "s">>

\* What a user may enter as table name in the onboarding bundle.
TableChoices == {<<>>, N8NEmbedTable, CustomTable}

\* The table name without the remapping of the reserved name.
PersistedTableName_KeepsReserved(profile_id, vector_schema_name) ==
    IF vector_schema_name # <<>> THEN vector_schema_name
    ELSE GeneratedTableName(profile_id)

\* persist_credentials: the table name it stores.
PersistedTableName(profile_id, vector_schema_name) ==
    LET table_name == IF vector_schema_name # <<>> THEN vector_schema_name
                      ELSE GeneratedTableName(profile_id)
    IN  IF table_name = N8NEmbedTable THEN GeneratedTableName(profile_id)
        ELSE table_name

\* VectorStoreService.__init__: table name and alias of a credential.
ServiceStore(credential) ==
    [alias |-> vector_alias_for_profile(credential.profile_id),
     table |-> IF credential.vector_schema_name # <<>>
               THEN credential.vector_schema_name ELSE N8NEmbedTable]

TenantStores ==
    {[alias |-> vector_alias_for_profile(p), table |-> t] :
        p \in ProfileIds, t \in {GeneratedTableName(q) : q \in ProfileIds}
                                  \cup {CustomTable, N8NEmbedTable}}

StoreKeys == {PipelineStore} \cup TenantStores

(***************************************************************************)
(* State.                                                                  *)
(***************************************************************************)
VARIABLES
    uploads,        \* UploadedFile rows; the id of a row is its index
    calls,          \* per document id: the process_uploaded_file call in flight
    tables,         \* store -> rows (tittle, body, embeding) in id order
    now,            \* logical clock behind timezone.now()
    upload_error,   \* what the last store_uploaded_file call raised, or NULL
    stored_count,   \* per document id: rows under its prefix after its last
                    \* successful pass, None before the first (history)
    credentials,    \* profile id -> UserCredential row
    databases,      \* connections.databases: the registered aliases
    tx,             \* the replace_segments call and its transaction
    fetched,        \* what the last fetch_segments call returned
    embed_call,     \* an EmbeddingAgent.embed_texts call made on its own
    workers,        \* per thread: its register_vector_connection call
    registrations,  \* the assignments connections.databases[alias] = {...}
                    \* made so far, in order (history)
    seg_call,       \* a segment_text call made on its own
    profiles,       \* profile id -> UserProfile row
    wizard,         \* profile id -> the onboarding conversation of its chat
    handler,        \* the handle_document call in flight
    download        \* the last handle_download_callback call

vars == <<uploads, calls, tables, now, upload_error, stored_count,
          credentials, databases, tx, fetched, embed_call,
          workers, registrations, seg_call,
          profiles, wizard, handler, download>>

pipeline_vars == <<uploads, calls, now, upload_error, stored_count>>
tenant_vars == <<credentials, databases, profiles>>
service_vars == <<tx, fetched>>
agent_vars == <<embed_call>>
bot_vars == <<wizard, handler, download>>
unit_vars == <<workers, registrations, seg_call, bot_vars>>

DocIds == 1..MaxDocs

NoCredential(profile_id) ==
    [present |-> FALSE, profile_id |-> profile_id, vector_schema_name |-> <<>>]

NoTransaction ==
    [pc |-> "none", store |-> PipelineStore, prefix |-> <<>>, entries |-> <<>>,
     work |-> <<>>, old |-> <<>>, seen |-> {}, stage |-> NULL,
     error |-> NULL, attempts |-> 0]

NoFetch == [done |-> FALSE, rows |-> <<>>]

IdleEmbed ==
    [pc |-> "idle", segments |-> <<>>, batch_start |-> 0, index |-> 0,
     embeddings |-> <<>>, results |-> <<>>, attempt |-> 0, requests |-> 0,
     total |-> 0, last |-> NULL, raised |-> NULL, returned |-> <<>>,
     slept |-> [kind |-> "none", delay |-> 0]]

\* A UserProfile row as get_or_create_profile creates it.
NewProfile == [onboarding_completed |-> FALSE]

\* A chat that is not in the onboarding conversation.
NoOutcome ==
    [finalized |-> FALSE, validated |-> FALSE, connected |-> FALSE,
     ensured |-> FALSE]

NoWizard == [state |-> "END", onboarding_data |-> {}, last |-> NoOutcome]

\* No handle_document call.
IdleHandler ==
    [pc |-> "idle", profile_id |-> 0, accepted |-> FALSE, replies |-> <<>>,
     document |-> 0, processed |-> 0, raised |-> NULL]

\* No handle_download_callback call.
NoDownload ==
    [pc |-> "none", profile_id |-> 0, file_id |-> 0, found |-> FALSE,
     status |-> NULL, reply |-> NULL, archive |-> FALSE]

\* A thread that is not inside register_vector_connection.
IdleWorker ==
    [pc |-> "idle", profile_id |-> 0, vector_db_name |-> NULL, returned |-> <<>>]

\* No segment_text call.
IdleSegment ==
    [pc |-> "idle", text |-> <<>>, max_sentences |-> 0, max_characters |-> 0,
     force_line_chunks |-> FALSE, chunks |-> <<>>]

IdleCall ==
    [pc |-> "idle", agent |-> NULL, segments |-> <<>>, batch_start |-> 0,
     index |-> 0, embeddings |-> <<>>, results |-> <<>>, attempt |-> 0,
     db_attempt |-> 0, raised |-> NULL, message |-> NULL, stage |-> NULL,
     rows_before |-> <<>>, count_before |-> None, cause |-> NULL]

Init ==
    /\ uploads = <<>>
    /\ calls = [d \in DocIds |-> IdleCall]
    /\ tables = [k \in StoreKeys |-> <<>>]
    /\ now = 0
    /\ upload_error = NULL
    /\ stored_count = [d \in DocIds |-> None]
    /\ credentials = [p \in ProfileIds |-> NoCredential(p)]
    /\ databases = {}
    /\ tx = NoTransaction
    /\ fetched = NoFetch
    /\ embed_call = IdleEmbed
    /\ workers = [t \in 1..MaxThreads |-> IdleWorker]
    /\ registrations = <<>>
    /\ seg_call = IdleSegment
    /\ profiles = [p \in ProfileIds |-> NewProfile]
    /\ wizard = [p \in ProfileIds |-> NoWizard]
    /\ handler = IdleHandler
    /\ download = NoDownload

(***************************************************************************)
(* store_uploaded_file                                                     *)
(***************************************************************************)
NewUpload(id, u) ==
    [id |-> id, profile |-> None, chat_id |-> u.chat_id,
     file_name |-> u.file_name, file_size |-> u.file_size,
     mime_type |-> u.mime_type, content |-> u.content,
     status |-> PENDING, error_message |-> "", processed_at |-> None]

StoreUploadedFile(u) ==
    /\ Len(uploads) < MaxDocs
    /\ IF ~ExtensionSupported(u.file_name) THEN
           /\ upload_error' = "UnsupportedFormatError"
           /\ UNCHANGED uploads
       ELSE IF ~FileSizeAccepted(u.file_size) THEN
           /\ upload_error' = "FileTooLargeError"
           /\ UNCHANGED uploads
       ELSE
           /\ upload_error' = NULL
           /\ uploads' = Append(uploads, NewUpload(Len(uploads) + 1, u))
    /\ UNCHANGED <<calls, tables, now, stored_count, tenant_vars, service_vars, agent_vars, unit_vars>>

(***************************************************************************)
(* Rows of a store.                                                        *)
(***************************************************************************)
\* filter(tittle__startswith=prefix): a literal prefix test.
RowsWithPrefix(rows, prefix) ==
    SelectSeq(rows, LAMBDA r : StartsWith(r.tittle, prefix))

RowsWithoutPrefix(rows, prefix) ==
    SelectSeq(rows, LAMBDA r : ~StartsWith(r.tittle, prefix))

\* The provider's vector for one text.
EmbeddingOf(text) == [of |-> text]

(***************************************************************************)
(* process_uploaded_file                                                   *)
(***************************************************************************)
SetCall(d, c) == calls' = [calls EXCEPT ![d] = c]

SetUpload(d, status, error_message, processed_at) ==
    uploads' = [uploads EXCEPT ![d].status = status,
                               ![d].error_message = error_message,
                               ![d].processed_at = processed_at]

\* The two except clauses: the record is marked failed with the text of the
\* error; an IngestionError is re-raised as it is, anything else is replaced
\* by the generic IngestionError.
Fail(d, stage, kind, text, recognized) ==
    /\ SetUpload(d, FAILED, text, Some(now))
    /\ SetCall(d, [calls[d] EXCEPT
                     !.pc = "done", !.stage = stage, !.cause = text,
                     !.raised = IF recognized THEN kind ELSE "IngestionError",
                     !.message = IF recognized THEN text ELSE MsgGeneric])

NoCallInFlight == \A e \in DocIds : calls[e].pc = "idle"

\* process_uploaded_file without the assignment status = PROCESSING: the
\* record keeps the status it had while the stages run.
BeginBody_KeepsStatus(d, agent, api_key_configured) ==
    /\ d \in 1..Len(uploads)
    /\ calls[d].pc = "idle"
    /\ now < MaxCalls
    /\ now' = now + 1
    /\ IF agent = "default" /\ ~api_key_configured THEN
           /\ SetCall(d, [IdleCall EXCEPT
                            !.pc = "done", !.stage = "agent", !.agent = agent,
                            !.raised = "ValueError", !.message = MsgNoApiKey,
                            !.cause = MsgNoApiKey,
                            !.rows_before = tables[PipelineStore],
                            !.count_before = stored_count[d]])
           /\ UNCHANGED uploads
       ELSE
           /\ SetCall(d, [IdleCall EXCEPT
                            !.pc = "parse", !.agent = agent,
                            !.rows_before = tables[PipelineStore],
                            !.count_before = stored_count[d]])
           /\ uploads' = [uploads EXCEPT ![d].error_message = ""]
    /\ UNCHANGED <<tables, upload_error, stored_count, tenant_vars, service_vars, agent_vars, unit_vars>>

\* agent = agent or EmbeddingAgent(); then the record is moved to processing.
BeginBody(d, agent, api_key_configured) ==
    /\ d \in 1..Len(uploads)
    /\ calls[d].pc = "idle"
    /\ now < MaxCalls
    /\ now' = now + 1
    /\ IF agent = "default" /\ ~api_key_configured THEN
           /\ SetCall(d, [IdleCall EXCEPT
                            !.pc = "done", !.stage = "agent", !.agent = agent,
                            !.raised = "ValueError", !.message = MsgNoApiKey,
                            !.cause = MsgNoApiKey,
                            !.rows_before = tables[PipelineStore],
                            !.count_before = stored_count[d]])
           /\ UNCHANGED uploads
       ELSE
           /\ SetCall(d, [IdleCall EXCEPT
                            !.pc = "parse", !.agent = agent,
                            !.rows_before = tables[PipelineStore],
                            !.count_before = stored_count[d]])
           /\ uploads' = [uploads EXCEPT ![d].status = PROCESSING,
                                         ![d].error_message = ""]
    /\ UNCHANGED <<tables, upload_error, stored_count, tenant_vars, service_vars, agent_vars, unit_vars>>

ProcessBegin(d) ==
    /\ NoCallInFlight
    /\ \E agent \in {"default", "stub"}, api_key_configured \in BOOLEAN :
           BeginBody(d, agent, api_key_configured)

\* parse_document
ParseDocument(d) ==
    /\ calls[d].pc = "parse"
    /\ LET uploaded == uploads[d]
           extension == Lower(PathSuffix(uploaded.file_name))
       IN  \/ /\ extension \notin SUPPORTED_EXTENSIONS
              /\ Fail(d, "extract", "ValueError",
                      "Unsupported file extension", FALSE)
           \/ /\ extension \in {<<".", "d", "o", "c", "x">>, <<".", "c", "s", "v">>}
              /\ Fail(d, "extract", "ParseError", "cannot read file", FALSE)
           \/ /\ extension \in SUPPORTED_EXTENSIONS
              /\ IF Strip(uploaded.content) = <<>> THEN
                     Fail(d, "extract", "EmptyFileError", MsgNoText, TRUE)
                 ELSE
                     /\ SetCall(d, [calls[d] EXCEPT !.pc = "segment"])
                     /\ UNCHANGED uploads
    /\ UNCHANGED <<tables, now, upload_error, stored_count, tenant_vars, service_vars, agent_vars, unit_vars>>

\* create_segments without the test of the chunk list.
CreateSegments_NoEmptyCheck(d) ==
    /\ calls[d].pc = "segment"
    /\ SetCall(d, [calls[d] EXCEPT
                     !.pc = "embed",
                     !.segments = segment_text(uploads[d].content),
                     !.batch_start = 0, !.index = 0,
                     !.embeddings = <<>>, !.results = <<>>,
                     !.attempt = 1])
    /\ UNCHANGED uploads
    /\ UNCHANGED <<tables, now, upload_error, stored_count, tenant_vars, service_vars, agent_vars, unit_vars>>

\* create_segments
CreateSegments(d) ==
    /\ calls[d].pc = "segment"
    /\ LET segments == segment_text(uploads[d].content)
       IN  IF segments = <<>> THEN
               Fail(d, "segment", "EmptyFileError", MsgNoSegments, TRUE)
           ELSE
               /\ SetCall(d, [calls[d] EXCEPT
                                !.pc = "embed", !.segments = segments,
                                !.batch_start = 0, !.index = 0,
                                !.embeddings = <<>>, !.results = <<>>,
                                !.attempt = 1])
               /\ UNCHANGED uploads
    /\ UNCHANGED <<tables, now, upload_error, stored_count, tenant_vars, service_vars, agent_vars, unit_vars>>

\* apply_embeddings without the comparison of the two lengths.
AfterEmbedTexts_NoCountCheck(d, vectors) ==
    /\ SetCall(d, [calls[d] EXCEPT !.pc = "delete", !.results = vectors,
                                   !.embeddings = <<>>, !.index = 0,
                                   !.batch_start = 0, !.attempt = 0,
                                   !.db_attempt = 1])
    /\ UNCHANGED uploads

\* apply_embeddings once embed_texts has returned: the count check, then the
\* storage steps.
AfterEmbedTexts(d, vectors) ==
    IF Len(vectors) # Len(calls[d].segments) THEN
        Fail(d, "count", "IngestionError", MsgMismatch, TRUE)
    ELSE
        /\ SetCall(d, [calls[d] EXCEPT !.pc = "delete", !.results = vectors,
                                       !.embeddings = <<>>, !.index = 0,
                                       !.batch_start = 0, !.attempt = 0,
                                       !.db_attempt = 1])
        /\ UNCHANGED uploads

\* embed_texts whose slice stops one text short of the batch size.
CurrentBatch_ShortSlice(c) ==
    SubSeq(c.segments, c.batch_start + 1,
           Min(c.batch_start + SEGMENT_BATCH_SIZE - 1, Len(c.segments)))

\* EmbeddingAgent.embed_texts, one request of the embed node per step: the
\* retry loop, then the route to the next text, the next batch or the end.
CurrentBatch(c) ==
    SubSeq(c.segments, c.batch_start + 1,
           Min(c.batch_start + SEGMENT_BATCH_SIZE, Len(c.segments)))

Retryable(outcome) == outcome \in TransientErrors \/ outcome = "APIStatusError 429"

\* The embed node with the ceiling test off by one: a retry follows the
\* failure of attempt API_MAX_RETRIES too.
EmbedNode_RetriesPastCeiling(c, outcome) ==
    LET batch == CurrentBatch(c)
        current_text == batch[c.index + 1]
        embeddings == Append(c.embeddings, EmbeddingOf(current_text))
        results == c.results \o embeddings
    IN  IF outcome = "ok" THEN
            IF c.index + 1 < Len(batch) THEN
                [kind |-> "continue", backoff |-> 0,
                 frame |-> [c EXCEPT !.embeddings = embeddings,
                                     !.index = c.index + 1, !.attempt = 1]]
            ELSE IF c.batch_start + SEGMENT_BATCH_SIZE < Len(c.segments) THEN
                [kind |-> "continue", backoff |-> 0,
                 frame |-> [c EXCEPT
                              !.results = results, !.embeddings = <<>>,
                              !.index = 0, !.attempt = 1,
                              !.batch_start = c.batch_start + SEGMENT_BATCH_SIZE]]
            ELSE [kind |-> "return", backoff |-> 0, frame |-> [c EXCEPT !.results = results]]
        ELSE IF Retryable(outcome) /\ c.attempt <= API_MAX_RETRIES THEN
            [kind |-> "continue", backoff |-> c.attempt,
             frame |-> [c EXCEPT !.attempt = c.attempt + 1]]
        ELSE [kind |-> "raise", backoff |-> 0, frame |-> c]

\* The embed node retrying after every error, whatever its kind.
EmbedNode_RetriesEveryError(c, outcome) ==
    LET batch == CurrentBatch(c)
        current_text == batch[c.index + 1]
        embeddings == Append(c.embeddings, EmbeddingOf(current_text))
        results == c.results \o embeddings
    IN  IF outcome = "ok" THEN
            IF c.index + 1 < Len(batch) THEN
                [kind |-> "continue", backoff |-> 0,
                 frame |-> [c EXCEPT !.embeddings = embeddings,
                                     !.index = c.index + 1, !.attempt = 1]]
            ELSE IF c.batch_start + SEGMENT_BATCH_SIZE < Len(c.segments) THEN
                [kind |-> "continue", backoff |-> 0,
                 frame |-> [c EXCEPT
                              !.results = results, !.embeddings = <<>>,
                              !.index = 0, !.attempt = 1,
                              !.batch_start = c.batch_start + SEGMENT_BATCH_SIZE]]
            ELSE [kind |-> "return", backoff |-> 0, frame |-> [c EXCEPT !.results = results]]
        ELSE IF c.attempt < API_MAX_RETRIES THEN
            [kind |-> "continue", backoff |-> c.attempt,
             frame |-> [c EXCEPT !.attempt = c.attempt + 1]]
        ELSE [kind |-> "raise", backoff |-> 0, frame |-> c]

\* The embed node that also sleeps before it re-raises at the ceiling.
EmbedNode_SleepsAtCeiling(c, outcome) ==
    LET batch == CurrentBatch(c)
        current_text == batch[c.index + 1]
        embeddings == Append(c.embeddings, EmbeddingOf(current_text))
        results == c.results \o embeddings
    IN  IF outcome = "ok" THEN
            IF c.index + 1 < Len(batch) THEN
                [kind |-> "continue", backoff |-> 0,
                 frame |-> [c EXCEPT !.embeddings = embeddings,
                                     !.index = c.index + 1, !.attempt = 1]]
            ELSE IF c.batch_start + SEGMENT_BATCH_SIZE < Len(c.segments) THEN
                [kind |-> "continue", backoff |-> 0,
                 frame |-> [c EXCEPT
                              !.results = results, !.embeddings = <<>>,
                              !.index = 0, !.attempt = 1,
                              !.batch_start = c.batch_start + SEGMENT_BATCH_SIZE]]
            ELSE [kind |-> "return", backoff |-> 0, frame |-> [c EXCEPT !.results = results]]
        ELSE IF Retryable(outcome) /\ c.attempt < API_MAX_RETRIES THEN
            [kind |-> "continue", backoff |-> c.attempt,
             frame |-> [c EXCEPT !.attempt = c.attempt + 1]]
        ELSE [kind |-> "raise",
              backoff |-> IF Retryable(outcome) THEN c.attempt ELSE 0,
              frame |-> c]

\* One request of the embed node on the frame c of an embed_texts call, and
\* what follows it: the next attempt, the next text, the next batch
\* ("continue"), the end of embed_texts ("return") or the error leaving it
\* ("raise").  backoff is the attempt number the retry delay is computed
\* from, 0 when the node does not sleep before a retry.
EmbedNode(c, outcome) ==
    LET batch == CurrentBatch(c)
        current_text == batch[c.index + 1]
        embeddings == Append(c.embeddings, EmbeddingOf(current_text))
        results == c.results \o embeddings
    IN  IF outcome = "ok" THEN
            IF c.index + 1 < Len(batch) THEN
                [kind |-> "continue", backoff |-> 0,
                 frame |-> [c EXCEPT !.embeddings = embeddings,
                                     !.index = c.index + 1, !.attempt = 1]]
            ELSE IF c.batch_start + SEGMENT_BATCH_SIZE < Len(c.segments) THEN
                [kind |-> "continue", backoff |-> 0,
                 frame |-> [c EXCEPT
                              !.results = results, !.embeddings = <<>>,
                              !.index = 0, !.attempt = 1,
                              !.batch_start = c.batch_start + SEGMENT_BATCH_SIZE]]
            ELSE [kind |-> "return", backoff |-> 0, frame |-> [c EXCEPT !.results = results]]
        ELSE IF Retryable(outcome) /\ c.attempt < API_MAX_RETRIES THEN
            [kind |-> "continue", backoff |-> c.attempt,
             frame |-> [c EXCEPT !.attempt = c.attempt + 1]]
        ELSE [kind |-> "raise", backoff |-> 0, frame |-> c]

EmbedRequest(d, outcome) ==
    /\ calls[d].pc = "embed"
    /\ calls[d].agent = "default"
    /\ LET step == EmbedNode(calls[d], outcome)
       IN  IF step.kind = "continue" THEN
               /\ SetCall(d, step.frame)
               /\ UNCHANGED uploads
           ELSE IF step.kind = "return" THEN
               AfterEmbedTexts(d, step.frame.results)
           ELSE Fail(d, "embed", outcome, outcome, FALSE)
    /\ UNCHANGED <<tables, now, upload_error, stored_count, tenant_vars, service_vars, agent_vars, unit_vars>>

\* An injected agent (a test double): embed_texts answers in one step with
\* count vectors.
StubEmbedTexts(d, count) ==
    /\ calls[d].pc = "embed"
    /\ calls[d].agent = "stub"
    /\ count \in 0..Len(calls[d].segments)
    /\ AfterEmbedTexts(d, [i \in 1..count |-> EmbeddingOf(calls[d].segments[i])])
    /\ UNCHANGED <<tables, now, upload_error, stored_count, tenant_vars, service_vars, agent_vars, unit_vars>>

\* _execute_with_retry around one database operation: an OperationalError is
\* retried until attempt DB_MAX_RETRIES, any other error propagates at once.
DbFailure(d, stage, outcome) ==
    IF outcome = "OperationalError" /\ calls[d].db_attempt < DB_MAX_RETRIES THEN
        /\ SetCall(d, [calls[d] EXCEPT !.db_attempt = calls[d].db_attempt + 1])
        /\ UNCHANGED uploads
    ELSE Fail(d, stage, outcome, outcome, FALSE)

\* apply_embeddings whose _delete_existing removes nothing.
DeleteExisting_KeepsRows(d, outcome) ==
    /\ calls[d].pc = "delete"
    /\ IF outcome = "ok" THEN
           /\ SetCall(d, [calls[d] EXCEPT !.pc = "insert", !.db_attempt = 1])
           /\ UNCHANGED <<uploads, tables>>
       ELSE
           /\ DbFailure(d, "delete", outcome)
           /\ UNCHANGED tables
    /\ UNCHANGED <<now, upload_error, stored_count, tenant_vars, service_vars, agent_vars, unit_vars>>

\* _delete_existing: its own transaction, committed when it returns.
DeleteExisting(d, outcome) ==
    /\ calls[d].pc = "delete"
    /\ IF outcome = "ok" THEN
           /\ tables' = [tables EXCEPT ![PipelineStore] =
                            RowsWithoutPrefix(@, _title_prefix(uploads[d]))]
           /\ SetCall(d, [calls[d] EXCEPT !.pc = "insert", !.db_attempt = 1])
           /\ UNCHANGED uploads
       ELSE
           /\ DbFailure(d, "delete", outcome)
           /\ UNCHANGED tables
    /\ UNCHANGED <<now, upload_error, stored_count, tenant_vars, service_vars, agent_vars, unit_vars>>

Entries(uploaded, segments, vectors) ==
    [i \in 1..Len(segments) |->
        [tittle |-> _title_for_segment(uploaded, i),
         body |-> segments[i],
         embeding |-> vectors[i]]]

\* _insert_entries in a second transaction, then the else clause of
\* process_uploaded_file.
InsertEntries(d, outcome) ==
    /\ calls[d].pc = "insert"
    /\ IF outcome = "ok" THEN
           /\ tables' = [tables EXCEPT ![PipelineStore] =
                            @ \o Entries(uploads[d], calls[d].segments,
                                         calls[d].results)]
           /\ SetUpload(d, READY, uploads[d].error_message, Some(now))
           /\ SetCall(d, [calls[d] EXCEPT !.pc = "done", !.stage = "ready"])
           /\ stored_count' = [stored_count EXCEPT ![d] =
                   Some(Len(RowsWithPrefix(tables'[PipelineStore],
                                           _title_prefix(uploads[d]))))]
       ELSE
           /\ DbFailure(d, "insert", outcome)
           /\ UNCHANGED <<tables, stored_count>>
    /\ UNCHANGED <<now, upload_error, tenant_vars, service_vars, agent_vars, unit_vars>>

\* build_export_archive: the segments.json manifest, read through the ORM
\* from the store of the pipeline.
build_export_archive(uploaded) ==
    [file_name |-> uploaded.file_name,
     chat_id |-> uploaded.chat_id,
     status |-> uploaded.status,
     segments |-> RowsWithPrefix(tables[PipelineStore], _title_prefix(uploaded))]

\* The call has returned or raised; its frame is dropped.
Return(d) ==
    /\ calls[d].pc = "done"
    /\ SetCall(d, IdleCall)
    /\ UNCHANGED <<uploads, tables, now, upload_error, stored_count, tenant_vars, service_vars, agent_vars, unit_vars>>

Next ==
    \/ \E u \in UploadInputs : StoreUploadedFile(u)
    \/ \E d \in DocIds : ProcessBegin(d)
    \/ \E d \in DocIds : ParseDocument(d)
    \/ \E d \in DocIds : CreateSegments(d)
    \/ \E d \in DocIds, outcome \in PipelineOutcomes : EmbedRequest(d, outcome)
    \/ \E d \in DocIds, count \in 0..3 : StubEmbedTexts(d, count)
    \/ \E d \in DocIds, outcome \in DbOutcomes : DeleteExisting(d, outcome)
    \/ \E d \in DocIds, outcome \in DbOutcomes : InsertEntries(d, outcome)
    \/ \E d \in DocIds : Return(d)

Spec == Init /\ [][Next]_vars

\* An injected agent whose embed_texts raises an exception constructed
\* without arguments (RuntimeError(), MemoryError(), a failed assert ...):
\* str(error) is the empty string.
StubEmbedRaises(d) ==
    /\ calls[d].pc = "embed"
    /\ calls[d].agent = "stub"
    /\ Fail(d, "embed", "RuntimeError", "", FALSE)
    /\ UNCHANGED <<tables, now, upload_error, stored_count, tenant_vars, service_vars, agent_vars, unit_vars>>

NextInjected ==
    \/ Next
    \/ \E d \in DocIds : StubEmbedRaises(d)

SpecInjected == Init /\ [][NextInjected]_vars

\* process_uploaded_file entered while the pass of another document is
\* still running (a second worker thread or process).
ProcessBeginConcurrently(d) ==
    /\ ~NoCallInFlight
    /\ \E agent \in {"default", "stub"}, api_key_configured \in BOOLEAN :
           BeginBody(d, agent, api_key_configured)

NextConcurrent ==
    \/ Next
    \/ \E d \in DocIds : ProcessBeginConcurrently(d)

SpecConcurrent == Init /\ [][NextConcurrent]_vars

(***************************************************************************)
(* embeddings/agent.py: embed_texts called on its own                      *)
(***************************************************************************)
\* The texts of a call: n distinct texts "1", "2", ..., in this order.
TextsOf(n) == [i \in 1..n |-> IntToStr(i)]

\* Outcomes of one request: those of the pipeline and a malformed-request
\* answer (status 400).
AgentOutcomes == ProviderOutcomes \cup {"APIStatusError 400"}

\* embed_texts(texts): the empty list is answered at once, otherwise the
\* loop over the batches starts.
EmbedTextsBegin(n) ==
    /\ embed_call.pc = "idle"
    /\ embed_call' =
          IF n = 0 THEN [IdleEmbed EXCEPT !.pc = "returned"]
          ELSE [IdleEmbed EXCEPT !.pc = "embed", !.segments = TextsOf(n),
                                 !.attempt = 1]
    /\ UNCHANGED <<pipeline_vars, tables, tenant_vars, service_vars, unit_vars>>

\* random.uniform(0, API_RETRY_BASE_DELAY), in whole seconds.
Jitters == 0..API_RETRY_BASE_DELAY

\* One client.embeddings.create request and the time.sleep that follows it.
\* requests counts the requests made for the current text, total those of
\* the call, last is the outcome of the latest one, slept the sleep made
\* after it: the retry delay API_RETRY_BASE_DELAY * attempt + jitter, or
\* the pacing delay after an answer.
EmbedTextsRequest(outcome, jitter) ==
    /\ embed_call.pc = "embed"
    /\ EmbedNode(embed_call, outcome).backoff = 0 => jitter = 0
    /\ LET step == EmbedNode(embed_call, outcome)
       IN  embed_call' =
              [step.frame EXCEPT
                 !.slept = IF step.backoff > 0
                           THEN [kind |-> "backoff",
                                 delay |-> API_RETRY_BASE_DELAY * step.backoff
                                             + jitter]
                           ELSE IF outcome = "ok"
                           THEN [kind |-> "pacing", delay |-> 0]
                           ELSE [kind |-> "none", delay |-> 0],
                 !.pc = IF step.kind = "continue" THEN "embed"
                        ELSE IF step.kind = "return" THEN "returned"
                        ELSE "raised",
                 !.requests = IF step.kind = "continue" /\ outcome = "ok"
                              THEN 0 ELSE embed_call.requests + 1,
                 !.total = embed_call.total + 1,
                 !.last = outcome,
                 !.raised = IF step.kind = "raise" THEN outcome ELSE NULL,
                 !.returned = IF step.kind = "return" THEN step.frame.results
                              ELSE <<>>]
    /\ UNCHANGED <<pipeline_vars, tables, tenant_vars, service_vars, unit_vars>>

\* The caller has the list or the error; the frame is dropped.
EmbedTextsEnd ==
    /\ embed_call.pc \in {"returned", "raised"}
    /\ embed_call' = IdleEmbed
    /\ UNCHANGED <<pipeline_vars, tables, tenant_vars, service_vars, unit_vars>>

NextAgent ==
    \/ \E n \in 0..MaxTexts : EmbedTextsBegin(n)
    \/ \E outcome \in AgentOutcomes, jitter \in Jitters :
          EmbedTextsRequest(outcome, jitter)
    \/ EmbedTextsEnd

SpecAgent == Init /\ [][NextAgent]_vars

(***************************************************************************)
(* bot/services/onboarding.py, ingestion/vector_schema.py                  *)
(***************************************************************************)
\* register_vector_connection: check-then-set on connections.databases.
register_vector_connection(credential) ==
    databases' = IF vector_alias_for_profile(credential.profile_id) \in databases
                 THEN databases
                 ELSE databases \cup {vector_alias_for_profile(credential.profile_id)}

\* persist_credentials when ensure_vector_schema succeeds: the profile is
\* marked, the credential row is written by update_or_create, the alias is
\* registered, and the transaction commits.
persist_credentials(profile_id, vector_schema_name) ==
    LET credential ==
            [present |-> TRUE, profile_id |-> profile_id,
             vector_schema_name |->
                 PersistedTableName(profile_id, vector_schema_name)]
    IN  /\ profiles' = [profiles EXCEPT ![profile_id].onboarding_completed = TRUE]
        /\ credentials' = [credentials EXCEPT ![profile_id] = credential]
        /\ register_vector_connection(credential)

\* persist_credentials called on its own.
PersistCredentials(profile_id, vector_schema_name) ==
    /\ persist_credentials(profile_id, vector_schema_name)
    /\ UNCHANGED <<pipeline_vars, tables, service_vars, agent_vars, unit_vars>>

NextTenant ==
    \/ Next
    \/ \E p \in ProfileIds, name \in TableChoices : PersistCredentials(p, name)

SpecTenant == Init /\ [][NextTenant]_vars

(***************************************************************************)
(* bot/onboarding.py, bot/validators.py: the table-name step of the wizard *)
(***************************************************************************)
\* Keys a user may press in the table-name step.
TableNameKeys == {"d", "1", "_", "-", "\"", ";", " ", "\t"}

\* Messages a user may send in the table-name step.
TableNameTexts ==
    {<<>>, N8NEmbedTable, CustomTable}
        \cup {<<a>> : a \in TableNameKeys}
        \cup {<<a, b>> : a \in TableNameKeys, b \in TableNameKeys}

\* handle_step: text = (message.text or "").strip(); an optional step whose
\* text is empty leaves the field out of onboarding_data (here <<>>).
handle_step(text) == Strip(text)

\* CredentialBundle.ensure_no_spaces.
ensure_no_spaces(value) ==
    [ok |-> \A i \in DOMAIN value : value[i] # " ", value |-> Strip(value)]

\* validate_payload, as far as vector_schema_name goes: a missing field takes
\* the default "n8n-embed"; a given one must have 1 to 128 characters and
\* pass ensure_no_spaces.
validate_payload(value) ==
    IF value = <<>> THEN [ok |-> TRUE, vector_schema_name |-> N8NEmbedTable]
    ELSE IF Len(value) > 128 THEN [ok |-> FALSE, vector_schema_name |-> <<>>]
    ELSE [ok |-> ensure_no_spaces(value).ok,
          vector_schema_name |-> ensure_no_spaces(value).value]

\* finalize_onboarding: a bundle that fails validation restarts the wizard
\* and persists nothing; a valid one goes to persist_credentials.
FinalizeOnboarding(profile_id, text) ==
    /\ validate_payload(handle_step(text)).ok
    /\ PersistCredentials(profile_id,
                          validate_payload(handle_step(text)).vector_schema_name)

NextOnboarding ==
    \/ \E p \in ProfileIds, text \in TableNameTexts : FinalizeOnboarding(p, text)
    \/ \E p \in ProfileIds, name \in TableChoices : PersistCredentials(p, name)

SpecOnboarding == Init /\ [][NextOnboarding]_vars

(***************************************************************************)
(* bot/onboarding.py: the onboarding conversation of a chat, from /start   *)
(* to finalize_onboarding.                                                 *)
(***************************************************************************)
\* The fields the steps before the table-name step collect.
RequiredFields ==
    {"phone_number", "supabase_project_id", "vector_db_host", "vector_db_name",
     "vector_db_user", "vector_db_password", "vector_db_port", "openai_api_key"}

\* What a finalize_onboarding call went through.
FinalizeOutcome(validated, connected, ensured) ==
    [finalized |-> TRUE, validated |-> validated, connected |-> connected,
     ensured |-> ensured]

\* persist_credentials without its transaction: what the statements before
\* ensure_vector_schema wrote stays written when it raises.
persist_credentials_rolled_back_Commits(profile_id, vector_schema_name) ==
    persist_credentials(profile_id, vector_schema_name)

\* persist_credentials when ensure_vector_schema raises on the tenant's
\* database: the alias is registered already (connections.databases is not
\* part of the transaction), and @transaction.atomic rolls back the profile
\* and credential rows.
persist_credentials_rolled_back(profile_id, vector_schema_name) ==
    /\ register_vector_connection(
           [present |-> TRUE, profile_id |-> profile_id,
            vector_schema_name |->
                PersistedTableName(profile_id, vector_schema_name)])
    /\ UNCHANGED <<credentials, profiles>>

\* /start: entry point of the conversation.  An onboarded profile is told so
\* and the conversation ends; any other is sent the first prompt.
start(p) ==
    /\ wizard[p].state = "END"
    /\ wizard' = [wizard EXCEPT ![p] =
                     [state |-> IF profiles[p].onboarding_completed
                                THEN "END" ELSE "STATE_PHONE",
                      onboarding_data |-> {}, last |-> NoOutcome]]
    /\ UNCHANGED <<pipeline_vars, tables, tenant_vars, service_vars,
                   agent_vars, workers, registrations, seg_call, handler,
                   download>>

\* handle_step for the steps before the last one: each stores its field and
\* sends the next prompt.
CollectSteps(p) ==
    /\ wizard[p].state = "STATE_PHONE"
    /\ wizard' = [wizard EXCEPT ![p] =
                     [state |-> "STATE_VECTOR_TABLE",
                      onboarding_data |-> RequiredFields, last |-> NoOutcome]]
    /\ UNCHANGED <<pipeline_vars, tables, tenant_vars, service_vars,
                   agent_vars, workers, registrations, seg_call, handler,
                   download>>

\* handle_step for the last step, which calls finalize_onboarding.
\* fields_valid: whether the fields of the earlier steps pass
\* validate_payload; connectivity: what validate_connectivity does; ensured:
\* whether ensure_vector_schema succeeds.
finalize_onboarding(p, text, fields_valid, connectivity, ensured) ==
    /\ wizard[p].state = "STATE_VECTOR_TABLE"
    /\ LET payload == validate_payload(handle_step(text))
           validated == fields_valid /\ payload.ok
           connected == connectivity = "ok"
           restarted(outcome) ==
               [state |-> "STATE_PHONE", onboarding_data |-> {},
                last |-> outcome]
       IN  IF ~validated
           THEN /\ wizard' = [wizard EXCEPT ![p] =
                                 restarted(FinalizeOutcome(FALSE, FALSE, FALSE))]
                /\ UNCHANGED tenant_vars
           ELSE IF ~connected
           THEN /\ wizard' = [wizard EXCEPT ![p] =
                                 restarted(FinalizeOutcome(TRUE, FALSE, FALSE))]
                /\ UNCHANGED tenant_vars
           ELSE IF ~ensured
           THEN /\ persist_credentials_rolled_back(p, payload.vector_schema_name)
                /\ wizard' = [wizard EXCEPT ![p].last =
                                 FinalizeOutcome(TRUE, TRUE, FALSE)]
           ELSE /\ persist_credentials(p, payload.vector_schema_name)
                /\ wizard' = [wizard EXCEPT ![p] =
                                 [state |-> "END", onboarding_data |-> {},
                                  last |-> FinalizeOutcome(TRUE, TRUE, TRUE)]]
    /\ UNCHANGED <<pipeline_vars, tables, service_vars, agent_vars, workers,
                   registrations, seg_call, handler, download>>

NextWizard ==
    \/ \E p \in ProfileIds : start(p)
    \/ \E p \in ProfileIds : CollectSteps(p)
    \/ \E p \in ProfileIds, text \in TableNameTexts, fields_valid \in BOOLEAN,
          connectivity \in {"ok", "ValueError"}, ensured \in BOOLEAN :
          finalize_onboarding(p, text, fields_valid, connectivity, ensured)

SpecWizard == Init /\ [][NextWizard]_vars

(***************************************************************************)
(* bot/handlers.py: handle_document and handle_download_callback, and the  *)
(* admin site's change form for UploadedFile.                              *)
(***************************************************************************)
ReplyNotOnboarded == "Setup is not finished yet."
ReplyDone == "Done!"
ReplyFailed == "Processing failed"
ReplyNotFound == "File not found."
ReplyStillProcessing == "File is still processing."

\* The replies that end the handling of an upload.
TerminalReplies == {ReplyDone, ReplyFailed}

\* _require_onboarding: the profile, if it is marked onboarding_completed.
_require_onboarding(p) == profiles[p].onboarding_completed

\* handle_document up to the call of store_uploaded_file: a chat that is not
\* onboarded is told so; a file whose name or size is refused gets the
\* failure reply (validate_extension and validate_file_size raise
\* IngestionError subclasses); any other file is downloaded.
HandleDocumentBegin(p, u) ==
    /\ handler.pc = "idle"
    /\ handler' =
          IF ~_require_onboarding(p)
          THEN [IdleHandler EXCEPT !.pc = "done", !.profile_id = p,
                                   !.replies = <<ReplyNotOnboarded>>]
          ELSE IF ~(ExtensionSupported(u.file_name)
                       /\ FileSizeAccepted(u.file_size))
          THEN [IdleHandler EXCEPT !.pc = "done", !.profile_id = p,
                                   !.replies = <<ReplyFailed>>,
                                   !.raised = "IngestionError"]
          ELSE [IdleHandler EXCEPT !.pc = "store", !.profile_id = p,
                                   !.accepted = TRUE]
    /\ UNCHANGED <<pipeline_vars, tables, tenant_vars, service_vars,
                   agent_vars, workers, registrations, seg_call, wizard,
                   download>>

\* store_uploaded_file(profile=profile, chat_id=..., ...): the function has
\* no parameter "profile", so the call raises TypeError before its body
\* runs.  TypeError is not an IngestionError: the except clause and the
\* else clause are skipped, only the finally clause runs, and the handler
\* ends without a document, a processing call or a reply.
HandleDocumentStore ==
    /\ handler.pc = "store"
    /\ handler' = [handler EXCEPT !.pc = "done", !.raised = "TypeError"]
    /\ UNCHANGED <<pipeline_vars, tables, tenant_vars, service_vars,
                   agent_vars, workers, registrations, seg_call, wizard,
                   download>>

\* The update has been handled.
HandleDocumentReturn ==
    /\ handler.pc = "done"
    /\ handler' = IdleHandler
    /\ UNCHANGED <<pipeline_vars, tables, tenant_vars, service_vars,
                   agent_vars, workers, registrations, seg_call, wizard,
                   download>>

\* The change form of UploadedFileAdmin: profile is an editable field.
AdminSetProfile(d, p) ==
    /\ d \in 1..Len(uploads)
    /\ uploads[d].profile = None
    /\ uploads' = [uploads EXCEPT ![d].profile = Some(p)]
    /\ UNCHANGED <<calls, now, upload_error, stored_count, tables,
                   tenant_vars, service_vars, agent_vars, unit_vars>>

\* The lookup that takes the id alone.
_get_uploaded_file_ById(file_id, p) ==
    {d \in 1..Len(uploads) : d = file_id}

\* _get_uploaded_file: UploadedFile.objects.get(id=file_id, profile=profile),
\* None when there is no such row (here: the empty set).
_get_uploaded_file(file_id, p) ==
    {d \in 1..Len(uploads) : d = file_id /\ uploads[d].profile = Some(p)}

\* handle_download_callback for callback data that names file_id.
HandleDownloadCallback(p, file_id) ==
    /\ download' =
          LET found == _get_uploaded_file(file_id, p)
              request == [NoDownload EXCEPT !.pc = "done", !.profile_id = p,
                                            !.file_id = file_id]
          IN  IF ~_require_onboarding(p)
              THEN [request EXCEPT !.reply = ReplyNotOnboarded]
              ELSE IF found = {}
              THEN [request EXCEPT !.reply = ReplyNotFound]
              ELSE IF uploads[file_id].status # READY
              THEN [request EXCEPT !.found = TRUE,
                                   !.status = uploads[file_id].status,
                                   !.reply = ReplyStillProcessing]
              ELSE [request EXCEPT !.found = TRUE,
                                   !.status = uploads[file_id].status,
                                   !.archive = TRUE]
    /\ UNCHANGED <<pipeline_vars, tables, tenant_vars, service_vars,
                   agent_vars, workers, registrations, seg_call, wizard,
                   handler>>

\* File ids a callback may name: the documents' and one that does not exist.
FileIds == 1..(MaxDocs + 1)

\* Uploads sent to the bot by chats that are, or are not yet, onboarded.
NextUpload ==
    \/ NextWizard
    \/ \E p \in ProfileIds, u \in UploadInputs : HandleDocumentBegin(p, u)
    \/ HandleDocumentStore
    \/ HandleDocumentReturn

SpecUpload == Init /\ [][NextUpload]_vars

\* Download requests for one document, which store_uploaded_file created and
\* the pipeline processes, which the admin site may bind to a profile, and
\* which either tenant, onboarded or not, may ask for.
NextDownload ==
    \/ uploads = <<>> /\ \E u \in UploadInputs : StoreUploadedFile(u)
    \/ \E d \in DocIds : ProcessBegin(d)
    \/ \E d \in DocIds : ParseDocument(d)
    \/ \E d \in DocIds : CreateSegments(d)
    \/ \E d \in DocIds, outcome \in PipelineOutcomes : EmbedRequest(d, outcome)
    \/ \E d \in DocIds, count \in 0..3 : StubEmbedTexts(d, count)
    \/ \E d \in DocIds, outcome \in DbOutcomes : DeleteExisting(d, outcome)
    \/ \E d \in DocIds, outcome \in DbOutcomes : InsertEntries(d, outcome)
    \/ \E d \in DocIds : Return(d)
    \/ \E p \in ProfileIds :
          ~credentials[p].present /\ PersistCredentials(p, N8NEmbedTable)
    \/ \E d \in DocIds, p \in ProfileIds : AdminSetProfile(d, p)
    \/ \E p \in ProfileIds, file_id \in FileIds :
          HandleDownloadCallback(p, file_id)

SpecDownload == Init /\ [][NextDownload]_vars

(***************************************************************************)
(* ingestion/vector_schema.py: register_vector_connection, statement by    *)
(* statement, called from several threads of the process.                  *)
(***************************************************************************)
Threads == 1..MaxThreads

\* credential.vector_db_name of the UserCredential a caller passes.
DbNames == {"tenant_db", "moved_db"}

\* The lookup that performs no membership test: the assignment always follows.
RegisterLookup_AlwaysAssigns(t, credential) ==
    /\ workers[t].pc = "idle"
    /\ workers' = [workers EXCEPT ![t] =
                      [pc |-> "assign", profile_id |-> credential.profile_id,
                       vector_db_name |-> credential.vector_db_name,
                       returned |-> <<>>]]
    /\ UNCHANGED <<pipeline_vars, tables, tenant_vars, service_vars,
                   agent_vars, registrations, seg_call, bot_vars>>

\* alias = vector_alias_for_profile(...); if alias in connections.databases:
\* return alias.  Nothing is held between this test and the assignment.
RegisterLookup(t, credential) ==
    /\ workers[t].pc = "idle"
    /\ LET alias == vector_alias_for_profile(credential.profile_id)
       IN  workers' = [workers EXCEPT ![t] =
                         [pc |-> IF alias \in databases THEN "return"
                                 ELSE "assign",
                          profile_id |-> credential.profile_id,
                          vector_db_name |-> credential.vector_db_name,
                          returned |-> IF alias \in databases THEN alias
                                       ELSE <<>>]]
    /\ UNCHANGED <<pipeline_vars, tables, tenant_vars, service_vars,
                   agent_vars, registrations, seg_call, bot_vars>>

\* connections.databases[alias] = {..., "NAME": credential.vector_db_name,
\* ...}; return alias.
RegisterAssign(t) ==
    /\ workers[t].pc = "assign"
    /\ LET alias == vector_alias_for_profile(workers[t].profile_id)
       IN  /\ databases' = databases \cup {alias}
           /\ registrations' =
                  Append(registrations,
                         [alias |-> alias, NAME |-> workers[t].vector_db_name])
           /\ workers' = [workers EXCEPT ![t].pc = "return",
                                         ![t].returned = alias]
    /\ UNCHANGED <<pipeline_vars, tables, credentials, profiles, service_vars,
                   agent_vars, seg_call, bot_vars>>

\* The caller has the alias.
RegisterReturn(t) ==
    /\ workers[t].pc = "return"
    /\ workers' = [workers EXCEPT ![t] = IdleWorker]
    /\ UNCHANGED <<pipeline_vars, tables, tenant_vars, service_vars,
                   agent_vars, registrations, seg_call, bot_vars>>

NextRegistry ==
    \/ \E t \in Threads, p \in ProfileIds, name \in DbNames :
          RegisterLookup(t, [profile_id |-> p, vector_db_name |-> name])
    \/ \E t \in Threads : RegisterAssign(t)
    \/ \E t \in Threads : RegisterReturn(t)

SpecRegistry == Init /\ [][NextRegistry]_vars

(***************************************************************************)
(* embeddings/segmenter.py: segment_text called on its own.                *)
(***************************************************************************)
\* Sentences a text is made of: two informative ones, one without letters,
\* one with too few words.
InputSentences ==
    {SentenceABC, <<"d", " ", "o", " ", "s", "!">>, SentenceNum, <<"x", ".">>}

\* One line without a break, longer than MAX_CHARACTERS_PER_CHUNK.
LongLine == [i \in 1..(MAX_CHARACTERS_PER_CHUNK + 1) |-> "a"]

\* The sequences of at most n input sentences.
RECURSIVE SentenceSeqs(_)
SentenceSeqs(n) ==
    IF n = 0 THEN {<<>>}
    ELSE SentenceSeqs(n - 1)
            \cup {Append(q, x) : q \in {r \in SentenceSeqs(n - 1) : Len(r) = n - 1},
                                 x \in InputSentences}

\* Texts: the sentences separated by blanks or by line breaks.
InputTexts ==
    {Join(q, sep) : q \in SentenceSeqs(MaxInputSentences),
                    sep \in {<<" ">>, <<"\n">>}}
        \cup {LongLine}

\* max_characters a caller passes: below a sentence's length, two sentences'
\* length, and the default.
CapChoices == {5, 12, MAX_CHARACTERS_PER_CHUNK}

SegmentCalls ==
    {[pc |-> "called", text |-> text, max_sentences |-> ms,
      max_characters |-> mc, force_line_chunks |-> flc, chunks |-> <<>>] :
        text \in InputTexts, ms \in 1..MaxInputSentences,
        mc \in CapChoices, flc \in BOOLEAN}

\* A call of segment_text is about to run.
InitSegmenter ==
    /\ uploads = <<>>
    /\ calls = [d \in DocIds |-> IdleCall]
    /\ tables = [k \in StoreKeys |-> <<>>]
    /\ now = 0
    /\ upload_error = NULL
    /\ stored_count = [d \in DocIds |-> None]
    /\ credentials = [p \in ProfileIds |-> NoCredential(p)]
    /\ databases = {}
    /\ tx = NoTransaction
    /\ fetched = NoFetch
    /\ embed_call = IdleEmbed
    /\ workers = [t \in 1..MaxThreads |-> IdleWorker]
    /\ registrations = <<>>
    /\ seg_call \in SegmentCalls
    /\ profiles = [p \in ProfileIds |-> NewProfile]
    /\ wizard = [p \in ProfileIds |-> NoWizard]
    /\ handler = IdleHandler
    /\ download = NoDownload

\* The call runs and returns its chunks.
SegmentText ==
    /\ seg_call.pc = "called"
    /\ seg_call' = [seg_call EXCEPT
                       !.pc = "returned",
                       !.chunks = segment_text_mode(seg_call.text,
                                                    seg_call.max_sentences,
                                                    seg_call.max_characters,
                                                    seg_call.force_line_chunks)]
    /\ UNCHANGED <<pipeline_vars, tables, tenant_vars, service_vars,
                   agent_vars, workers, registrations, bot_vars>>

SpecSegmenter == InitSegmenter /\ [][SegmentText]_vars

(***************************************************************************)
(* ingestion/vector_store.py                                               *)
(***************************************************************************)
\* SQL LIKE: % matches any run of characters, _ any one character, a
\* backslash takes the next pattern character literally.
RECURSIVE LikeMatch(_, _)
LikeMatch(text, pattern) ==
    IF pattern = <<>> THEN text = <<>>
    ELSE IF Head(pattern) = "%" THEN
        \/ LikeMatch(text, Tail(pattern))
        \/ text # <<>> /\ LikeMatch(Tail(text), pattern)
    ELSE IF Head(pattern) = "_" THEN
        text # <<>> /\ LikeMatch(Tail(text), Tail(pattern))
    ELSE IF Head(pattern) = "\\" /\ Len(pattern) >= 2 THEN
        /\ text # <<>>
        /\ Head(text) = pattern[2]
        /\ LikeMatch(Tail(text), Tail(Tail(pattern)))
    ELSE
        /\ text # <<>>
        /\ Head(text) = Head(pattern)
        /\ LikeMatch(Tail(text), Tail(pattern))

\* WHERE tittle LIKE %s with the parameter f"{prefix}%".
RowsLike(rows, prefix) ==
    SelectSeq(rows, LAMBDA r : LikeMatch(r.tittle, prefix \o <<"%">>))

RowsNotLike(rows, prefix) ==
    SelectSeq(rows, LAMBDA r : ~LikeMatch(r.tittle, prefix \o <<"%">>))

\* INSERT INTO ... (tittle, body, embeding) VALUES of each entry.
RowsOf(entries) ==
    [i \in 1..Len(entries) |->
        [tittle |-> entries[i][1], body |-> entries[i][2],
         embeding |-> entries[i][3]]]

\* What fetch_segments returns for the rows its SELECT yields.
TuplesOf(rows) ==
    [i \in 1..Len(rows) |-> <<rows[i].tittle, rows[i].body, rows[i].embeding>>]

\* UploadedFile._title_prefix of the documents the service is used for.
ServiceDocs ==
    { [file_name |-> NameA, id |-> 1], [file_name |-> NameAB, id |-> 2] }

ServicePrefixes == {_title_prefix(x) : x \in ServiceDocs}

BodyX == <<"x">>
BodyY == <<"y">>

EntryInputs(prefix) ==
    { <<>>,
      << <<prefix \o IntToStr(1), BodyX, EmbeddingOf(BodyX)>> >>,
      << <<prefix \o IntToStr(1), BodyY, EmbeddingOf(BodyY)>>,
         <<prefix \o IntToStr(2), BodyX, EmbeddingOf(BodyX)>> >> }

\* VectorStoreService(credential).replace_segments(prefix, entries): entry of
\* transaction.atomic.  The statements of the transaction act on its own
\* view of the table; other connections read the committed rows.
ReplaceBegin(profile_id, prefix, entries) ==
    /\ tx.pc = "none"
    /\ credentials[profile_id].present
    /\ register_vector_connection(credentials[profile_id])
    /\ tx' = [pc |-> "delete",
              store |-> ServiceStore(credentials[profile_id]),
              prefix |-> prefix, entries |-> entries,
              work |-> tables[ServiceStore(credentials[profile_id])],
              old |-> tables[ServiceStore(credentials[profile_id])],
              seen |-> {}, stage |-> NULL, error |-> NULL, attempts |-> 1]
    /\ UNCHANGED <<agent_vars, unit_vars, pipeline_vars, tables, credentials, profiles, fetched>>

\* An exception inside the block: the transaction is rolled back and the
\* exception leaves replace_segments, which has no retry loop around the
\* block (attempts stays at the one run of ReplaceBegin).
Rollback(stage, outcome) ==
    /\ tx' = [tx EXCEPT !.pc = "rolled_back", !.stage = stage, !.work = <<>>,
                        !.error = outcome]
    /\ UNCHANGED tables

\* _delete_segments on a connection in autocommit: the delete is published
\* when the statement ends.
ReplaceDelete_Autocommit(outcome) ==
    /\ tx.pc = "delete"
    /\ IF outcome = "ok" THEN
           /\ tx' = [tx EXCEPT
                       !.work = RowsNotLike(tx.work, tx.prefix),
                       !.pc = IF tx.entries # <<>> THEN "insert" ELSE "commit"]
           /\ tables' = [tables EXCEPT ![tx.store] = RowsNotLike(@, tx.prefix)]
       ELSE Rollback("delete", outcome)
    /\ UNCHANGED <<agent_vars, unit_vars, pipeline_vars, tenant_vars, fetched>>

\* _delete_segments that removes nothing: replace_segments appends.
ReplaceDelete_KeepsRows(outcome) ==
    /\ tx.pc = "delete"
    /\ IF outcome = "ok" THEN
           /\ tx' = [tx EXCEPT
                       !.pc = IF tx.entries # <<>> THEN "insert" ELSE "commit"]
           /\ UNCHANGED tables
       ELSE Rollback("delete", outcome)
    /\ UNCHANGED <<agent_vars, unit_vars, pipeline_vars, tenant_vars, fetched>>

\* _delete_segments
ReplaceDelete(outcome) ==
    /\ tx.pc = "delete"
    /\ IF outcome = "ok" THEN
           /\ tx' = [tx EXCEPT
                       !.work = RowsNotLike(tx.work, tx.prefix),
                       !.pc = IF tx.entries # <<>> THEN "insert" ELSE "commit"]
           /\ UNCHANGED tables
       ELSE Rollback("delete", outcome)
    /\ UNCHANGED <<agent_vars, unit_vars, pipeline_vars, tenant_vars, fetched>>

\* _insert_segments
ReplaceInsert(outcome) ==
    /\ tx.pc = "insert"
    /\ IF outcome = "ok" THEN
           /\ tx' = [tx EXCEPT !.work = tx.work \o RowsOf(tx.entries),
                               !.pc = "commit"]
           /\ UNCHANGED tables
       ELSE Rollback("insert", outcome)
    /\ UNCHANGED <<agent_vars, unit_vars, pipeline_vars, tenant_vars, fetched>>

\* Exit of transaction.atomic: the commit publishes the view at once.
ReplaceCommit(outcome) ==
    /\ tx.pc = "commit"
    /\ IF outcome = "ok" THEN
           /\ tables' = [tables EXCEPT ![tx.store] = tx.work]
           /\ tx' = [tx EXCEPT !.pc = "committed", !.work = <<>>]
       ELSE Rollback("commit", outcome)
    /\ UNCHANGED <<agent_vars, unit_vars, pipeline_vars, tenant_vars, fetched>>

ReplaceReturn ==
    /\ tx.pc \in {"committed", "rolled_back"}
    /\ tx' = NoTransaction
    /\ UNCHANGED <<agent_vars, unit_vars, pipeline_vars, tables, tenant_vars, fetched>>

\* VectorStoreService(credential).fetch_segments(prefix) on another
\* connection: one SELECT over the committed rows.
FetchSegments(profile_id, prefix) ==
    /\ credentials[profile_id].present
    /\ register_vector_connection(credentials[profile_id])
    /\ LET store == ServiceStore(credentials[profile_id])
           result == TuplesOf(RowsLike(tables[store], prefix))
       IN  /\ fetched' = [done |-> TRUE, rows |-> result]
           /\ tx' = IF tx.pc \in {"delete", "insert", "commit"}
                         /\ tx.store = store /\ tx.prefix = prefix
                    THEN [tx EXCEPT !.seen = @ \cup {result}]
                    ELSE tx
    /\ UNCHANGED <<agent_vars, unit_vars, pipeline_vars, tables, credentials, profiles>>

\* VectorStoreService.count_segments
count_segments(store, prefix) == Len(RowsLike(tables[store], prefix))

\* UploadedFile.segments_count
segments_count(uploaded) ==
    IF uploaded.profile = None THEN 0
    ELSE IF ~credentials[uploaded.profile[1]].present THEN 0
    ELSE count_segments(ServiceStore(credentials[uploaded.profile[1]]),
                        _title_prefix(uploaded))

\* Each tenant is onboarded once here; the table the tenant is bound to does
\* not change under the service calls.
NextService ==
    \/ \E p \in ProfileIds, name \in TableChoices :
          ~credentials[p].present /\ PersistCredentials(p, name)
    \/ \E p \in ProfileIds, prefix \in ServicePrefixes :
          \E entries \in EntryInputs(prefix) : ReplaceBegin(p, prefix, entries)
    \/ \E outcome \in DbOutcomes : ReplaceDelete(outcome)
    \/ \E outcome \in DbOutcomes : ReplaceInsert(outcome)
    \/ \E outcome \in DbOutcomes : ReplaceCommit(outcome)
    \/ ReplaceReturn
    \/ \E p \in ProfileIds, prefix \in ServicePrefixes : FetchSegments(p, prefix)

SpecService == Init /\ [][NextService]_vars

(***************************************************************************)
(* Properties of the pipeline.                                             *)
(***************************************************************************)
Stored(d) == RowsWithPrefix(tables[PipelineStore], _title_prefix(uploads[d]))

StoredBefore(d) ==
    RowsWithPrefix(calls[d].rows_before, _title_prefix(uploads[d]))

Existing == 1..Len(uploads)

\* C1 as stated: the status moves only along Pending -> Processing -> Ready
\* or Failed, and once it is Ready or Failed no later step changes it.
C1_TerminalStatusIsFinal ==
    [][\A d \in Existing :
          /\ uploads[d].status \in {READY, FAILED}
                => uploads'[d].status = uploads[d].status
          /\ uploads'[d].status # uploads[d].status
                => \/ uploads[d].status = PENDING /\ uploads'[d].status = PROCESSING
                   \/ uploads[d].status = PROCESSING
                        /\ uploads'[d].status \in {READY, FAILED}]_vars

\* C1 amended: every change of status is either the entry of a
\* process_uploaded_file call, which sets Processing whatever the status was
\* (so Ready and Failed are left again by re-processing), or the end of that
\* call, which moves Processing to Ready or to Failed.
C1_StatusMovesOnlyByBeginOrEnd ==
    [][\A d \in Existing :
          uploads'[d].status # uploads[d].status
             => \/ /\ calls[d].pc = "idle"
                   /\ calls'[d].pc = "parse"
                   /\ uploads'[d].status = PROCESSING
                \/ /\ uploads[d].status = PROCESSING
                   /\ calls'[d].pc = "done"
                   /\ uploads'[d].status \in {READY, FAILED}]_vars

\* A document that had reached a terminal status is being processed again.
C1_Witness ==
    \E d \in Existing :
        uploads[d].status = PROCESSING /\ uploads[d].processed_at # None

\* C2 as stated: when a call has ended the status is Ready exactly when it
\* returned and Failed exactly when it raised.
C2_EndsTerminal ==
    \A d \in Existing :
        calls[d].pc = "done"
           => /\ (calls[d].raised = NULL) <=> (uploads[d].status = READY)
              /\ (calls[d].raised # NULL) <=> (uploads[d].status = FAILED)

\* C3 as stated: the record matches the outcome of the call that has ended,
\* and the error message is empty on entry to Processing.
C3_RecordMatchesOutcome ==
    \A d \in Existing :
        /\ calls[d].pc = "done" /\ calls[d].raised = NULL
              => /\ uploads[d].status = READY
                 /\ uploads[d].processed_at = Some(now)
                 /\ uploads[d].error_message = ""
        /\ calls[d].pc = "done" /\ calls[d].raised # NULL
              => /\ uploads[d].status = FAILED
                 /\ uploads[d].processed_at = Some(now)
                 /\ uploads[d].error_message = calls[d].cause
        /\ calls[d].pc = "parse" => uploads[d].error_message = ""

\* C4: the store is as the call found it until every chunk is embedded and
\* the counts agree, and it stays so when the call fails before the storage
\* steps; the storage steps run only with one vector per chunk.
C4_StoreUntouchedBeforeStorage ==
    \A d \in Existing :
        /\ \/ calls[d].pc \in {"parse", "segment", "embed"}
           \/ /\ calls[d].pc = "done"
              /\ calls[d].stage \in {"agent", "extract", "segment", "embed", "count"}
           => tables = [tables EXCEPT ![PipelineStore] = calls[d].rows_before]
        /\ calls[d].pc \in {"delete", "insert"}
           => /\ Len(calls[d].results) = Len(calls[d].segments)
              /\ \A i \in 1..Len(calls[d].segments) :
                    calls[d].results[i] = EmbeddingOf(calls[d].segments[i])

\* A call failed on the count check on a document that has stored segments.
C4_Witness ==
    \E d \in Existing :
        /\ calls[d].pc = "done"
        /\ calls[d].stage = "count"
        /\ calls[d].raised = "IngestionError"
        /\ Stored(d) # <<>>

\* C5 as stated: a Ready document has as many rows under its prefix as the
\* segmenter produced chunks for its text.
C5_ReadyCountEqualsChunks ==
    \A d \in Existing :
        uploads[d].status = READY
           => Len(Stored(d)) = Len(segment_text(uploads[d].content))

\* C6 as stated: when the storage step of a call has failed, the rows that
\* were stored under the prefix before the call are still there.
C6_StorageAllOrNothing ==
    \A d \in Existing :
        calls[d].pc = "done" /\ calls[d].stage \in {"delete", "insert"}
           => Stored(d) = StoredBefore(d)

\* C9: a successful pass over a document that already had a successful pass
\* leaves as many rows under its prefix as the earlier pass left.
C9_SecondRunSameCount ==
    \A d \in Existing :
        calls[d].pc = "done" /\ calls[d].stage = "ready"
              /\ calls[d].count_before # None
           => Some(Len(Stored(d))) = calls[d].count_before

\* The second successful pass of a document with stored rows has ended.
C9_Witness ==
    \E d \in Existing :
        /\ calls[d].pc = "done" /\ calls[d].stage = "ready"
        /\ calls[d].count_before # None /\ calls[d].count_before # Some(0)
        /\ StoredBefore(d) # <<>>

\* C15 as stated: a provider failure that ends the call after the last
\* retry is raised as EmbeddingProviderError, a storage failure as
\* StorageError, each with its own message.
C15_FailuresKeepTheirKind ==
    \A d \in Existing :
        /\ /\ calls[d].pc = "done" /\ calls[d].stage = "embed"
           /\ calls[d].cause \in TransientErrors \cup {"APIStatusError 429"}
           => /\ calls[d].raised = "EmbeddingProviderError"
              /\ calls[d].message = calls[d].cause
        /\ /\ calls[d].pc = "done" /\ calls[d].stage \in {"delete", "insert"}
           /\ calls[d].cause = "OperationalError"
           => /\ calls[d].raised = "StorageError"
              /\ calls[d].message = calls[d].cause

\* C17: store_uploaded_file answers a file whose lower-cased extension is
\* not one of the four with UnsupportedFormatError and a file of more than
\* 15 MiB with FileTooLargeError, in both cases without creating a record;
\* any other file, one of exactly 15 MiB included, gets a Pending record.
\* (A store_uploaded_file step changes upload_error or appends a record.)
C17_RejectedUploadCreatesNothing ==
    [][upload_error' # upload_error \/ Len(uploads') # Len(uploads)
          => \A u \in UploadInputs :
                StoreUploadedFile(u)
                   => IF Lower(PathSuffix(u.file_name)) \notin SUPPORTED_EXTENSIONS THEN
                          /\ upload_error' = "UnsupportedFormatError"
                          /\ uploads' = uploads
                      ELSE IF u.file_size > 15 * 1024 * 1024 THEN
                          /\ upload_error' = "FileTooLargeError"
                          /\ uploads' = uploads
                      ELSE
                          /\ upload_error' = NULL
                          /\ Len(uploads') = Len(uploads) + 1
                          /\ SubSeq(uploads', 1, Len(uploads)) = uploads
                          /\ uploads'[Len(uploads')].status = PENDING
                          /\ uploads'[Len(uploads')].file_name = u.file_name]_vars

\* A file of exactly 15 MiB has its record and a file of one byte more,
\* with an upper-case extension, has just been rejected for its size.
C17_Witness ==
    /\ upload_error = "FileTooLargeError"
    /\ \E d \in Existing : uploads[d].file_size = 15 * 1024 * 1024

\* C18: the stages after segmentation run only on a text that is not blank
\* and has chunks; a call that found blank text or no chunk has raised
\* EmptyFileError, the record is Failed with a non-empty message, no
\* embedding request was made and the store is as the call found it.
C18_EmptyFileFailsBeforeEmbedding ==
    \A d \in Existing :
        /\ \/ calls[d].pc \in {"embed", "delete", "insert"}
           \/ /\ calls[d].pc = "done"
              /\ calls[d].stage \in {"embed", "count", "delete", "insert", "ready"}
           => /\ Strip(uploads[d].content) # <<>>
              /\ calls[d].segments # <<>>
        /\ calls[d].pc = "done" /\ calls[d].stage = "segment"
           => calls[d].raised = "EmptyFileError"
        /\ calls[d].pc = "done" /\ calls[d].raised = "EmptyFileError"
           => /\ uploads[d].status = FAILED
              /\ uploads[d].error_message # ""
              /\ calls[d].message = uploads[d].error_message
              /\ calls[d].attempt = 0
              /\ calls[d].embeddings = <<>> /\ calls[d].results = <<>>
              /\ tables = [tables EXCEPT ![PipelineStore] = calls[d].rows_before]

\* A text without an informative sentence has failed in segmentation while
\* the store holds rows of an earlier document.
C18_Witness ==
    \E d \in Existing :
        /\ calls[d].pc = "done" /\ calls[d].stage = "segment"
        /\ calls[d].raised = "EmptyFileError"
        /\ Strip(uploads[d].content) # <<>>
        /\ tables[PipelineStore] # <<>>

\* The texts of the errors process_uploaded_file recognizes.
RecognizedTexts == {MsgNoText, MsgNoSegments, MsgMismatch}

\* C19 as stated: a call ended by an exception that is no ingestion error
\* has raised IngestionError with the fixed generic message, whatever the
\* text of the exception, and the record holds that text.
C19_GenericMessageHidesCause ==
    \A d \in Existing :
        /\ calls[d].pc = "done" /\ calls[d].raised # NULL
        /\ calls[d].cause \notin RecognizedTexts
        => /\ calls[d].raised = "IngestionError"
           /\ calls[d].message = MsgGeneric
           /\ uploads[d].error_message = calls[d].cause

(***************************************************************************)
(* Properties of the vector store service and of the store binding.        *)
(***************************************************************************)
\* fetch_segments(tx.prefix) on the rows the table held when the
\* transaction began.
FetchedBeforeReplace == TuplesOf(RowsLike(tx.old, tx.prefix))

\* fetch_segments(tx.prefix) on the committed rows.
FetchedNow == TuplesOf(RowsLike(tables[tx.store], tx.prefix))

\* C7: while replace_segments is inside its transaction other connections
\* read the table as it was, every concurrent fetch returned the complete
\* old set or the complete new set, and a failed insert (or delete, or
\* commit) leaves the table as it was.
C7_ReplaceIsAtomic ==
    /\ tx.pc \in {"delete", "insert", "commit", "rolled_back"}
          => tables[tx.store] = tx.old
    /\ \A result \in tx.seen : result \in {FetchedBeforeReplace, tx.entries}

\* The insert failed after the delete had run, on a prefix that had rows,
\* and a fetch ran while the transaction was open.
C7_Witness ==
    /\ tx.pc = "rolled_back"
    /\ tx.stage = "insert"
    /\ FetchedBeforeReplace # <<>>
    /\ tx.seen # {}

C8_WitnessEmpty ==
    /\ tx.pc = "committed"
    /\ FetchedBeforeReplace # <<>>
    /\ tx.entries = <<>>

\* C16 as stated, for replace_segments: an operation that failed on a
\* transport error has been run DB_MAX_RETRIES times before the error
\* reaches the caller.
C16_TransportErrorIsRetried ==
    tx.pc = "rolled_back" /\ tx.error = "OperationalError"
       => tx.attempts = DB_MAX_RETRIES

\* C20 as stated: for a Ready document the manifest of the export archive
\* lists as many segments as segments_count reports.
C20_ManifestCountEqualsLiveCount ==
    \A d \in Existing :
        uploads[d].status = READY
           => Len(build_export_archive(uploads[d]).segments)
                 = segments_count(uploads[d])

\* The profiles a document belongs to: those with its chat id.
Owners(uploaded) == {p \in ProfileIds : ChatIdOf(p) = uploaded.chat_id}

\* C10 as stated: after a successful pass the document's segments are in the
\* store of its owner's credential, where fetch_segments reads them, and
\* under its prefix in no other store.
C10_WritesToOwnersStore ==
    \A d \in Existing :
        calls[d].pc = "done" /\ calls[d].stage = "ready"
           => \A p \in Owners(uploads[d]) :
                 credentials[p].present
                    => /\ TuplesOf(RowsLike(tables[ServiceStore(credentials[p])],
                                            _title_prefix(uploads[d])))
                            = TuplesOf(Entries(uploads[d], calls[d].segments,
                                               calls[d].results))
                       /\ \A k \in StoreKeys \ {ServiceStore(credentials[p])} :
                             RowsWithPrefix(tables[k], _title_prefix(uploads[d]))
                                = <<>>

(***************************************************************************)
(* Properties of the embedding agent.                                      *)
(***************************************************************************)
\* C11: when embed_texts returns, it returns one vector per text and vector
\* i is the provider's vector for text i.
C11_VectorsMatchTexts ==
    embed_call.pc = "returned"
       => embed_call.returned =
             [i \in 1..Len(embed_call.segments) |->
                 EmbeddingOf(embed_call.segments[i])]

\* A call over more than one batch, the last one partial, with a retry on
\* the way, has returned.
C11_Witness ==
    /\ embed_call.pc = "returned"
    /\ Len(embed_call.segments) > SEGMENT_BATCH_SIZE
    /\ Len(embed_call.segments) % SEGMENT_BATCH_SIZE # 0
    /\ embed_call.total > Len(embed_call.segments)

RetriedOutcomes == TransientErrors \cup {"APIStatusError 429"}

\* C12: no text gets more than API_MAX_RETRIES requests; a further request
\* for the same text follows only a rate-limit, timeout or connection
\* error; a transient failure leaves the call only at the ceiling.
C12_AtMostSixRequests ==
    /\ embed_call.requests <= API_MAX_RETRIES
    /\ embed_call.pc = "embed" /\ embed_call.requests > 0
          => embed_call.last \in RetriedOutcomes
    /\ embed_call.pc = "raised" /\ embed_call.last \in RetriedOutcomes
          => embed_call.requests = API_MAX_RETRIES

\* The sixth consecutive transient failure of a text has ended the call.
C12_Witness ==
    /\ embed_call.pc = "raised"
    /\ embed_call.requests = API_MAX_RETRIES
    /\ embed_call.last \in TransientErrors

NonTransientOutcomes == {"APIStatusError 401", "APIStatusError 400"}

\* C13: the request answered by an authentication or malformed-request
\* failure ends the call with that error and without a list; after the
\* error no further request is made.
C13_NonTransientFailsAtOnce ==
    [][/\ embed_call'.total # embed_call.total
             /\ embed_call'.last \in NonTransientOutcomes
          => /\ embed_call'.pc = "raised"
             /\ embed_call'.raised = embed_call'.last
             /\ embed_call'.returned = <<>>
       /\ embed_call.pc = "raised"
          => /\ embed_call'.pc \in {"raised", "idle"}
             /\ embed_call'.pc = "raised" => embed_call'.total = embed_call.total]_vars

\* An authentication failure on a later text, after vectors had been
\* collected and with texts still to embed, has ended the call.
C13_Witness ==
    /\ embed_call.pc = "raised"
    /\ embed_call.last = "APIStatusError 401"
    /\ embed_call.results # <<>>
    /\ Len(embed_call.results) + Len(embed_call.embeddings) + 1
          < Len(embed_call.segments)

\* C14 as stated: a 5xx answer is retried up to the ceiling, so it ends the
\* call only as the answer to request number API_MAX_RETRIES of a text.
C14_ServerErrorIsRetried ==
    embed_call.pc = "raised" /\ embed_call.last = "APIStatusError 500"
       => embed_call.requests = API_MAX_RETRIES

(***************************************************************************)
(* Properties of the connection registry.                                  *)
(***************************************************************************)
\* The assignments made for an alias, in order.
RegistrationsOf(alias) ==
    SelectSeq(registrations, LAMBDA r : r.alias = alias)

\* C21: register_vector_connection is idempotent: every call returns the
\* alias derived from the tenant's profile id, and a call that starts when
\* that alias is already registered returns it at once and leaves the
\* registry as it was: no assignment is made for it.
C21_RegisteredAliasIsLeftAlone ==
    [][\A t \in Threads :
          /\ workers'[t].pc = "return"
                => workers'[t].returned
                     = vector_alias_for_profile(workers'[t].profile_id)
          /\ ( /\ workers[t].pc = "idle"
               /\ workers'[t].pc # "idle"
               /\ vector_alias_for_profile(workers'[t].profile_id)
                     \in databases )
                => /\ workers'[t].pc = "return"
                   /\ registrations' = registrations
                   /\ databases' = databases]_vars

\* A call made with other settings than the registered ones has returned
\* and the entry still is the one registered first.
C21_Witness ==
    \E t \in Threads :
        /\ workers[t].pc = "return"
        /\ Len(RegistrationsOf(workers[t].returned)) = 1
        /\ RegistrationsOf(workers[t].returned)[1].NAME
              # workers[t].vector_db_name

\* C22: whatever the interleaving of the threads, an alias is registered
\* exactly once: no second assignment is made for an alias, so no entry a
\* thread has registered is overwritten by another.
C22_RegisteredAtMostOnce ==
    \A p \in ProfileIds :
        Len(RegistrationsOf(vector_alias_for_profile(p))) <= 1

(***************************************************************************)
(* Properties of the table name.                                           *)
(***************************************************************************)
\* The characters [A-Za-z0-9_-].
IsTableNameChar(ch) == IsAlnum(ch) \/ ch \in {"_", "-"}

\* C23: the table name the schema and store layers interpolate into their
\* SQL statements for a tenant consists only of characters of [A-Za-z0-9_-]:
\* a name entered in onboarding with any other character is never persisted.
C23_TableNamesAreSqlSafe ==
    \A p \in ProfileIds :
        credentials[p].present
            => \A i \in DOMAIN ServiceStore(credentials[p]).table :
                   IsTableNameChar(ServiceStore(credentials[p]).table[i])

\* What a tenant sends, or a bundle holds, when no table name or the
\* reserved one is chosen.
NoneOrReserved == {<<>>, <<"\t">>, N8NEmbedTable}

\* C24: persist_credentials stores n8n_embed_{profile id} whenever the tenant
\* chose no table name or the reserved "n8n-embed", and the reserved name is
\* never the stored table name nor the one the schema and store layers use
\* for a tenant.
C24_ReservedNameIsRemapped ==
    [][\A p \in ProfileIds :
          /\ ( \/ \E text \in NoneOrReserved : FinalizeOnboarding(p, text)
               \/ \E name \in NoneOrReserved : PersistCredentials(p, name) )
                => credentials'[p].vector_schema_name = GeneratedTableName(p)
          /\ credentials'[p].present
                => /\ credentials'[p].vector_schema_name # N8NEmbedTable
                   /\ ServiceStore(credentials'[p]).table # N8NEmbedTable]_vars

\* A tenant's credential is stored with the generated table name, which is
\* the one the store layer uses, and its alias is registered.
C24_Witness ==
    \E p \in ProfileIds :
        /\ credentials[p].present
        /\ credentials[p].vector_schema_name = GeneratedTableName(p)
        /\ ServiceStore(credentials[p]).table = GeneratedTableName(p)
        /\ vector_alias_for_profile(p) \in databases

(***************************************************************************)
(* Properties of the pipeline with respect to the tenant's configuration.  *)
(***************************************************************************)
\* C25: a document whose tenant has no configured credentials is never moved
\* to Processing, let alone to Ready: processing it stops before the status
\* change and before any embedding or storage call.
C25_UnconfiguredTenantIsNotProcessed ==
    \A d \in Existing :
        (\A p \in Owners(uploads[d]) : ~credentials[p].present)
            => /\ uploads[d].status \notin {PROCESSING, READY}
               /\ calls[d].segments = <<>>
               /\ calls[d].results = <<>>

(***************************************************************************)
(* Properties of the segmenter.                                            *)
(***************************************************************************)
\* The sentences of the call's text that pass the informativeness filter.
Surviving ==
    SelectSeq(SentTokenize(seg_call.text),
              LAMBDA sn : SentenceIsInformative(sn, DefaultMinWords, 1, 2))

\* The sentences cut into consecutive groups after the positions in cuts.
RECURSIVE Groups(_, _, _, _)
Groups(sentences, cuts, i, buffer) ==
    IF i > Len(sentences) THEN <<>>
    ELSE IF i \in cuts \/ i = Len(sentences) THEN
        <<Append(buffer, sentences[i])>> \o Groups(sentences, cuts, i + 1, <<>>)
    ELSE Groups(sentences, cuts, i + 1, Append(buffer, sentences[i]))

JoinedGroups(sentences, cuts) ==
    LET groups == Groups(sentences, cuts, 1, <<>>)
    IN  [g \in 1..Len(groups) |-> Join(groups[g], <<" ">>)]

\* C26: in sentence mode the chunks are the surviving sentences, in their
\* original order, cut into consecutive groups and each group joined by
\* single blanks: no sentence is dropped, duplicated, reordered or split over
\* two chunks.
C26_ChunksAreTheSurvivingSentences ==
    (seg_call.pc = "returned" /\ ~seg_call.force_line_chunks)
        => \E cuts \in SUBSET (1..(Len(Surviving) - 1)) :
               seg_call.chunks = JoinedGroups(Surviving, cuts)

\* Three surviving sentences came back in two chunks.
C26_Witness ==
    /\ seg_call.pc = "returned"
    /\ ~seg_call.force_line_chunks
    /\ Len(Surviving) = 3
    /\ Len(SentTokenize(seg_call.text)) = 4
    /\ Len(seg_call.chunks) = 2

\* C27: in sentence mode no chunk holds more than max_sentences sentences,
\* for every max_sentences from 1 on, and no chunk is empty.
C27_ChunkHasAtMostMaxSentences ==
    (seg_call.pc = "returned" /\ ~seg_call.force_line_chunks)
        => \A i \in DOMAIN seg_call.chunks :
               /\ seg_call.chunks[i] # <<>>
               /\ Len(SentTokenize(seg_call.chunks[i])) <= seg_call.max_sentences

\* A chunk is full by its sentence count while the character budget would
\* have let the next sentence in.
C27_Witness ==
    /\ seg_call.pc = "returned"
    /\ ~seg_call.force_line_chunks
    /\ seg_call.max_sentences = 2
    /\ seg_call.max_characters = MAX_CHARACTERS_PER_CHUNK
    /\ Len(seg_call.chunks) = 2
    /\ Len(SentTokenize(seg_call.chunks[1])) = 2

\* C28: in line mode no chunk is longer than the max_characters the caller
\* passed.
C28_LineChunkWithinCallersCap ==
    (seg_call.pc = "returned" /\ seg_call.force_line_chunks)
        => \A i \in DOMAIN seg_call.chunks :
               Len(seg_call.chunks[i]) <= seg_call.max_characters

(***************************************************************************)
(* Properties of titles and positions.                                     *)
(***************************************************************************)
\* C29: when a pass has succeeded with n chunks, the rows under the
\* document's prefix, read in id order as the export reads them, are n rows
\* with the titles {file_name}|{id}|1 to {file_name}|{id}|n in this order,
\* each position once, row k holding chunk k and vector k.
C29_RowsCarryPositionsInOrder ==
    \A d \in Existing :
        calls[d].pc = "done" /\ calls[d].stage = "ready"
           => LET rows == build_export_archive(uploads[d]).segments
              IN  /\ Len(rows) = Len(calls[d].segments)
                  /\ \A k \in 1..Len(rows) :
                        /\ rows[k].tittle
                              = uploads[d].file_name \o <<"|">>
                                  \o IntToStr(uploads[d].id) \o <<"|">>
                                  \o IntToStr(k)
                        /\ rows[k].body = calls[d].segments[k]
                        /\ rows[k].embeding = calls[d].results[k]

\* A second document's pass has just stored two chunks.
C29_Witness ==
    \E d \in Existing :
        /\ calls[d].pc = "done"
        /\ calls[d].stage = "ready"
        /\ d = 2
        /\ Len(calls[d].segments) = 2
        /\ Len(build_export_archive(uploads[d]).segments) = 2

(***************************************************************************)
(* Properties of store_uploaded_file.                                      *)
(***************************************************************************)
\* C30: store_uploaded_file on a valid file creates exactly one document: it
\* is Pending, bound to the uploading tenant's profile, and records the given
\* name, byte size and MIME hint; no processing call is started and no store
\* is written.
C30_StoreCreatesOnePendingBoundDocument ==
    [][Len(uploads') # Len(uploads)
         => LET doc == uploads'[Len(uploads')]
            IN  /\ Len(uploads') = Len(uploads) + 1
                /\ SubSeq(uploads', 1, Len(uploads)) = uploads
                /\ doc.status = PENDING
                /\ \E u \in UploadInputs :
                      /\ ExtensionSupported(u.file_name)
                      /\ FileSizeAccepted(u.file_size)
                      /\ doc.chat_id = u.chat_id
                      /\ doc.file_name = u.file_name
                      /\ doc.file_size = u.file_size
                      /\ doc.mime_type = u.mime_type
                /\ doc.profile # None
                /\ calls' = calls
                /\ tables' = tables]_vars

\* C32: in sentence mode every chunk made of two or more sentences is, once
\* joined with single blanks, at most max_characters long; only a chunk that
\* is one over-long sentence may exceed the cap.
C32_JoinedChunkWithinCap ==
    (seg_call.pc = "returned" /\ ~seg_call.force_line_chunks)
        => \A i \in DOMAIN seg_call.chunks :
               Len(SentTokenize(seg_call.chunks[i])) >= 2
                   => Len(seg_call.chunks[i]) <= seg_call.max_characters

(***************************************************************************)
(* Properties of the retry delay.                                          *)
(***************************************************************************)
\* C33: a request after which a further attempt for the same text follows is
\* followed by one retry sleep of API_RETRY_BASE_DELAY times the number of
\* the failed attempt plus a jitter between 0 and API_RETRY_BASE_DELAY; a
\* request that succeeded, and the failed request that ends the call, are
\* followed by no retry sleep.
C33_BackoffBetweenAttemptsOnly ==
    [][embed_call'.total = embed_call.total + 1
         => IF embed_call'.pc = "embed" /\ embed_call'.last # "ok"
            THEN /\ embed_call'.attempt = embed_call.attempt + 1
                 /\ embed_call'.slept.kind = "backoff"
                 /\ embed_call'.slept.delay
                       >= API_RETRY_BASE_DELAY * embed_call.attempt
                 /\ embed_call'.slept.delay
                       <= API_RETRY_BASE_DELAY * embed_call.attempt
                            + API_RETRY_BASE_DELAY
            ELSE embed_call'.slept.kind # "backoff"]_vars

\* The last attempt of a text is about to be made after the longest delay.
C33_Witness ==
    /\ embed_call.pc = "embed"
    /\ embed_call.attempt = API_MAX_RETRIES
    /\ embed_call.slept.kind = "backoff"
    /\ embed_call.slept.delay = API_RETRY_BASE_DELAY * API_MAX_RETRIES

(***************************************************************************)
(* Properties of the title prefix.                                         *)
(***************************************************************************)
\* C34: the rows selected by a document's title prefix, which are the rows
\* its replace, delete, fetch and count work on, are rows of this document
\* only: each has the title of one of its own positions.
C34_PrefixSelectsOwnRowsOnly ==
    \A d \in Existing :
        \A i \in DOMAIN Stored(d) :
            \E k \in 1..Len(tables[PipelineStore]) :
                Stored(d)[i].tittle = _title_for_segment(uploads[d], k)

(***************************************************************************)
(* Properties of passes over different documents.                          *)
(***************************************************************************)
\* C35: whatever the order or interleaving of the passes of two documents,
\* each document ends as its own pass alone leaves it: once no pass is
\* running, a Ready document has under its prefix exactly the rows of its
\* own chunks and vectors, untouched by the other document's pass.
C35_PassesAreIndependent ==
    NoCallInFlight
        => \A d \in Existing :
              uploads[d].status = READY
                 => Stored(d)
                       = Entries(uploads[d], segment_text(uploads[d].content),
                                 [i \in 1..Len(segment_text(uploads[d].content))
                                    |-> EmbeddingOf(segment_text(uploads[d].content)[i])])

(***************************************************************************)
(* Properties of the failure record.                                       *)
(***************************************************************************)
\* C37: a document whose status is Failed has a non-empty error_message,
\* whichever exception made the pass fail.
C37_FailedHasMessage ==
    \A d \in Existing :
        uploads[d].status = FAILED => uploads[d].error_message # ""

(***************************************************************************)
(* Properties of the registered connection settings.                       *)
(***************************************************************************)
\* C40: the settings registered under a tenant's alias equal the credential
\* the caller holds: when register_vector_connection returns the alias to a
\* caller, the entry under that alias carries the database name of the
\* credential that caller passed, also when the credential was changed
\* after the alias was first registered.
C40_RegisteredSettingsAreCurrent ==
    \A t \in Threads :
        workers[t].pc = "return"
            => LET made == RegistrationsOf(workers[t].returned)
               IN  /\ Len(made) > 0
                   /\ made[Len(made)].NAME = workers[t].vector_db_name

(***************************************************************************)
(* Properties of the onboarding conversation.                              *)
(***************************************************************************)
\* A finalize_onboarding call was the last thing the conversation did.
Finalized(p) == wizard[p].last.finalized

\* C39: a profile becomes onboarding_completed only in a finalize_onboarding
\* call whose payload passed validation and the connectivity check and whose
\* persist_credentials ensured the vector table, and then its credential is
\* stored; after a call in which one of these failed the profile is not
\* marked and has no credential, and after a validation or connectivity
\* failure the conversation is back at the first step with no collected data.
C39_OnboardedOnlyAfterAllSteps ==
    [][\A p \in ProfileIds :
          /\ (profiles'[p].onboarding_completed
                    /\ ~profiles[p].onboarding_completed)
                => /\ wizard[p].state = "STATE_VECTOR_TABLE"
                   /\ wizard'[p].last = FinalizeOutcome(TRUE, TRUE, TRUE)
                   /\ credentials'[p].present
                   /\ vector_alias_for_profile(p) \in databases'
          /\ (Finalized(p)' /\ wizard'[p].last # FinalizeOutcome(TRUE, TRUE, TRUE))
                => /\ ~profiles'[p].onboarding_completed
                   /\ ~credentials'[p].present
          /\ (Finalized(p)' /\ ~wizard'[p].last.connected)
                => /\ wizard'[p].state = "STATE_PHONE"
                   /\ wizard'[p].onboarding_data = {}]_vars

\* ensure_vector_schema failed inside persist_credentials: the alias is
\* registered, and the profile is neither marked nor has a credential.
C39_Witness ==
    \E p \in ProfileIds :
        /\ wizard[p].last = FinalizeOutcome(TRUE, TRUE, FALSE)
        /\ vector_alias_for_profile(p) \in databases
        /\ ~profiles[p].onboarding_completed
        /\ \E q \in ProfileIds : profiles[q].onboarding_completed

(***************************************************************************)
(* Properties of the bot's handlers.                                       *)
(***************************************************************************)
\* The terminal replies a handle_document call has sent.
TerminalSent ==
    {i \in DOMAIN handler.replies : handler.replies[i] \in TerminalReplies}

\* C31: an upload handled for an onboarded user ends with exactly one
\* terminal reply, the success message or a failure message: no handler call
\* for such a user finishes without one.
C31_UploadEndsWithOneTerminalReply ==
    (handler.pc = "done" /\ handler.replies # <<ReplyNotOnboarded>>)
        => Cardinality(TerminalSent) = 1

\* C36: each upload the bot accepts creates a fresh document, and
\* process_uploaded_file is invoked exactly once for it.
C36_AcceptedUploadIsProcessedOnce ==
    (handler.pc = "done" /\ handler.accepted)
        => /\ handler.document \in 1..Len(uploads)
           /\ handler.processed = 1

\* C38: handle_download_callback builds an archive only when the id it is
\* given names a document of the requesting profile whose status is Ready at
\* that moment; for another profile's document, an unknown id or a document
\* in any other status it builds none.
C38_ArchiveOnlyForOwnReadyDocument ==
    [][(download' # download /\ download'.archive)
          => /\ download'.file_id \in 1..Len(uploads)
             /\ uploads[download'.file_id].profile = Some(download'.profile_id)
             /\ uploads[download'.file_id].status = READY
             /\ profiles[download'.profile_id].onboarding_completed]_vars

\* An archive has been built for a tenant's own Ready document while the
\* other tenant is onboarded too.
C38_Witness ==
    /\ download.archive
    /\ download.profile_id = 1
    /\ download.file_id = 1
    /\ uploads[1].profile = Some(1)
    /\ profiles[2].onboarding_completed

====
